---- MODULE Spec2Model ----
(***************************************************************************)
(* Knowledge-graph memory store of app/memory.py: a JSON-lines persistence *)
(* file, the load/save routines and the nine store operations of           *)
(* KnowledgeGraphManager; the JSON-RPC endpoint of app/mcp.py with its     *)
(* handlers, its tools/call dispatch and the audit logger of               *)
(* app/mcp_logger.py; the web UI's read of the same file.                  *)
(*                                                                         *)
(* A string is a sequence of one-character strings, so that str.lower()    *)
(* and the substring test of search_nodes are computed, not assumed.       *)
(* A line of the file is a record tagged with what json.loads makes of it. *)
(***************************************************************************)
EXTENDS Integers, Sequences, FiniteSets, TLC

VARIABLES
    file,    \* the persistence file: whether it exists, and its lines
    last,    \* the store call the sequential caller made last, as the caller sees it
    tasks,   \* the concurrent store calls, each with its event loop and position
    events,  \* the file accesses of the concurrent calls, in the order they happened
    mcp_queries  \* the rows of the audit table mcp_queries, in insertion order

vars == <<file, last, tasks, events, mcp_queries>>

\* ---------------------------------------------------------------- bounds

\* Longest batch (list argument) of a store call.
MaxBatch == 2
\* Longest persistence file drawn as an arbitrary initial content.
MaxLines == 3

\* -------------------------------------------------------------- universe

NameA == <<"A">>
NameAb == <<"a", "b">>
Names == {NameA, NameAb}

TypeT == <<"t">>
TypeB == <<"B">>
EntityTypes == {TypeT, TypeB}

ObsX == <<"x">>
ObsBa == <<"b", "A">>
Observations == {ObsX, ObsBa}

RelKnows == <<"k">>
RelUses == <<"u">>
RelationTypes == {RelKnows, RelUses}

Queries == {<<>>, <<"a">>, <<"A">>, <<"b">>, <<"B", "a">>, <<"a", "b">>, <<"x", "x">>}

SeqsUpTo(S, n) == UNION {[1..k -> S] : k \in 0..n}

\* ------------------------------------------------------- sequence helpers

Range(s) == {s[i] : i \in DOMAIN s}

\* ----------------------------------------------------------------- strings

\* str.lower() on one character of the alphabet in use.
LowerChar(c) ==
    CASE c = "A" -> "a"
      [] c = "B" -> "b"
      [] OTHER -> c

StrLower(s) == [i \in DOMAIN s |-> LowerChar(s[i])]

\* Python's "sub in s" for strings: sub occurs as a contiguous run of s.
StrContains(sub, s) ==
    \E i \in 0..(Len(s) - Len(sub)) : SubSeq(s, i + 1, i + Len(sub)) = sub

\* ------------------------------------------------------------ data classes

Entity(name, entity_type, observations) ==
    [name |-> name, entity_type |-> entity_type, observations |-> observations]

EntityToDict(e) ==
    [name |-> e.name, entityType |-> e.entity_type, observations |-> e.observations]

\* Entity.from_dict raises KeyError when "name" or "entityType" is missing.
EntityFromDictRaises(data) ==
    ~({"name", "entityType"} \subseteq DOMAIN data)

EntityFromDict(data) ==
    Entity(data["name"], data["entityType"],
           IF "observations" \in DOMAIN data THEN data["observations"] ELSE <<>>)

Relation(from_entity, to_entity, relation_type) ==
    [from_entity |-> from_entity, to_entity |-> to_entity,
     relation_type |-> relation_type]

RelationToDict(r) ==
    [from |-> r.from_entity, to |-> r.to_entity, relationType |-> r.relation_type]

RelationFromDictRaises(data) ==
    ~({"from", "to", "relationType"} \subseteq DOMAIN data)

\* from_dict reading the two endpoints in each other's place.
RelationFromDictSwapped(data) ==
    Relation(data["to"], data["from"], data["relationType"])

RelationFromDict(data) ==
    Relation(data["from"], data["to"], data["relationType"])

KnowledgeGraph(entities, relations) ==
    [entities |-> entities, relations |-> relations]

EmptyGraph == KnowledgeGraph(<<>>, <<>>)

\* {"type": t, **d}
WithType(t, d) ==
    [k \in DOMAIN d \cup {"type"} |-> IF k = "type" THEN t ELSE d[k]]

\* {k: v for k, v in item.items() if k != "type"}
WithoutType(item) == [k \in DOMAIN item \ {"type"} |-> item[k]]

\* -------------------------------------------------------- persistence file

\* A line of the file, by what json.loads(line) does with it:
\*   "object": a JSON object, obj its members;
\*   "value" : valid JSON that is not an object (a number, a list);
\*   "text"  : not JSON (json.loads raises JSONDecodeError);
\*   "blank" : only white space.
ObjectLine(obj) == [kind |-> "object", obj |-> obj]
ValueLine == [kind |-> "value", obj |-> <<>>]
TextLine == [kind |-> "text", obj |-> <<>>]
BlankLine == [kind |-> "blank", obj |-> <<>>]

\* json.dumps of a dict: one line holding that object.
JsonDumps(d) == ObjectLine(d)

MissingFile == [exists |-> FALSE, lines |-> <<>>]
FileOf(lines) == [exists |-> TRUE, lines |-> lines]

\* What load_graph makes of one line (lines 121-135 of memory.py):
\* "skip", "entity", "relation", or "raise" for an exception that is not
\* a JSONDecodeError and so leaves the loop.
LoadLine(line) ==
    CASE line.kind = "blank" -> [tag |-> "skip"]
      [] line.kind = "text" -> [tag |-> "skip"]
      [] line.kind = "value" -> [tag |-> "raise"]
      [] OTHER ->
           LET item == line.obj
               type == IF "type" \in DOMAIN item THEN item["type"] ELSE "none"
           IN  IF type = "entity"
               THEN IF EntityFromDictRaises(WithoutType(item))
                    THEN [tag |-> "raise"]
                    ELSE [tag |-> "entity", val |-> EntityFromDict(WithoutType(item))]
               ELSE IF type = "relation"
               THEN IF RelationFromDictRaises(WithoutType(item))
                    THEN [tag |-> "raise"]
                    ELSE [tag |-> "relation", val |-> RelationFromDict(WithoutType(item))]
               ELSE [tag |-> "skip"]

RECURSIVE LoadedOf(_, _)
\* The values of the lines that load as `tag`, in file order.
LoadedOf(lines, tag) ==
    IF lines = <<>> THEN <<>>
    ELSE LET r == LoadLine(Head(lines))
         IN  (IF r.tag = tag THEN <<r.val>> ELSE <<>>) \o LoadedOf(Tail(lines), tag)

\* KnowledgeGraphManager.load_graph: never raises; any exception other than
\* a per-line JSONDecodeError ends in the outer handler, which returns an
\* empty graph.
LoadGraph(f) ==
    IF ~f.exists THEN EmptyGraph
    ELSE IF \A i \in DOMAIN f.lines : f.lines[i].kind = "blank" THEN EmptyGraph
    ELSE IF \E i \in DOMAIN f.lines : LoadLine(f.lines[i]).tag = "raise" THEN EmptyGraph
    ELSE KnowledgeGraph(LoadedOf(f.lines, "entity"), LoadedOf(f.lines, "relation"))

\* KnowledgeGraphManager.save_graph: every entity, then every relation, one
\* JSON object per line, the file overwritten in full.
SaveGraph(graph) ==
    FileOf([i \in DOMAIN graph.entities |->
               JsonDumps(WithType("entity", EntityToDict(graph.entities[i])))]
           \o
           [i \in DOMAIN graph.relations |->
               JsonDumps(WithType("relation", RelationToDict(graph.relations[i])))])

\* ------------------------------------------------- create_entities (170-187)

\* Line 178 without its test: every spec is taken as new.
IsNewNameAlways(name, existing_names) == TRUE

\* Line 178: the spec is skipped when its name is already taken.
IsNewName(name, existing_names) == name \notin existing_names

RECURSIVE CreateEntitiesLoop(_, _, _, _)
\* The loop of lines 176-183 over the rest of the batch; a spec without
\* "name" or "entityType" raises KeyError out of the operation.
CreateEntitiesLoop(data, entities, existing_names, new_entities) ==
    IF data = <<>>
    THEN [raised |-> FALSE, entities |-> entities, result |-> new_entities]
    ELSE IF EntityFromDictRaises(Head(data))
    THEN [raised |-> TRUE, entities |-> entities, result |-> <<>>]
    ELSE LET entity == EntityFromDict(Head(data))
         IN  IF IsNewName(entity.name, existing_names)
             THEN CreateEntitiesLoop(Tail(data), Append(entities, entity),
                                     existing_names \cup {entity.name},
                                     Append(new_entities, entity))
             ELSE CreateEntitiesLoop(Tail(data), entities, existing_names,
                                     new_entities)

\* create_entities returning the whole entity list in place of new_entities.
CreateEntitiesReturnsAll(graph, entities_data) ==
    LET r == CreateEntitiesLoop(entities_data, graph.entities,
                                {graph.entities[i].name : i \in DOMAIN graph.entities},
                                <<>>)
    IN  [raised |-> r.raised, mutates |-> TRUE,
         graph |-> KnowledgeGraph(r.entities, graph.relations),
         result |-> IF r.raised THEN <<>> ELSE r.entities]

\* create_entities as an all-or-nothing batch: when one spec is skipped,
\* no spec of the batch is created.
CreateEntitiesAtomic(graph, entities_data) ==
    LET r == CreateEntitiesLoop(entities_data, graph.entities,
                                {graph.entities[i].name : i \in DOMAIN graph.entities},
                                <<>>)
        all == ~r.raised /\ Len(r.result) = Len(entities_data)
    IN  [raised |-> r.raised, mutates |-> TRUE,
         graph |-> IF all THEN KnowledgeGraph(r.entities, graph.relations) ELSE graph,
         result |-> IF all THEN r.result ELSE <<>>]

\* create_entities on the loaded graph: the graph to save and the list returned.
CreateEntities(graph, entities_data) ==
    LET r == CreateEntitiesLoop(entities_data, graph.entities,
                                {graph.entities[i].name : i \in DOMAIN graph.entities},
                                <<>>)
    IN  [raised |-> r.raised, mutates |-> TRUE,
         graph |-> KnowledgeGraph(r.entities, graph.relations),
         result |-> r.result]

\* ------------------------------------------------ create_relations (189-211)

RelationKey(r) == <<r.from_entity, r.to_entity, r.relation_type>>

\* Line 202 without its test: every relation is taken as new.
IsNewRelationAlways(relation_key, existing_relations) == TRUE

\* Line 202: the relation is skipped when its triple is already present.
IsNewRelation(relation_key, existing_relations) ==
    relation_key \notin existing_relations

RECURSIVE CreateRelationsLoop(_, _, _, _)
CreateRelationsLoop(data, relations, existing_relations, new_relations) ==
    IF data = <<>>
    THEN [raised |-> FALSE, relations |-> relations, result |-> new_relations]
    ELSE IF RelationFromDictRaises(Head(data))
    THEN [raised |-> TRUE, relations |-> relations, result |-> <<>>]
    ELSE LET relation == RelationFromDict(Head(data))
         IN  IF IsNewRelation(RelationKey(relation), existing_relations)
             THEN CreateRelationsLoop(Tail(data), Append(relations, relation),
                                      existing_relations \cup {RelationKey(relation)},
                                      Append(new_relations, relation))
             ELSE CreateRelationsLoop(Tail(data), relations, existing_relations,
                                      new_relations)

\* create_relations with a referential check: a relation is taken only when
\* both its endpoints are names of loaded entities.
CreateRelationsChecked(graph, relations_data) ==
    LET names == {graph.entities[i].name : i \in DOMAIN graph.entities}
        r == CreateRelationsLoop(
                 SelectSeq(relations_data,
                           LAMBDA d : RelationFromDictRaises(d)
                                      \/ (d["from"] \in names /\ d["to"] \in names)),
                 graph.relations,
                 {RelationKey(graph.relations[i]) : i \in DOMAIN graph.relations},
                 <<>>)
    IN  [raised |-> r.raised, mutates |-> TRUE,
         graph |-> KnowledgeGraph(graph.entities, r.relations),
         result |-> r.result]

CreateRelations(graph, relations_data) ==
    LET r == CreateRelationsLoop(relations_data, graph.relations,
                                 {RelationKey(graph.relations[i]) : i \in DOMAIN graph.relations},
                                 <<>>)
    IN  [raised |-> r.raised, mutates |-> TRUE,
         graph |-> KnowledgeGraph(graph.entities, r.relations),
         result |-> r.result]

\* ------------------------------------------------ add_observations (213-238)

\* next((i for i, e in enumerate(entities) if e.name == name), None):
\* the index of the first entity of that name, 0 for None.
FindEntity(entities, entity_name) ==
    IF \E i \in DOMAIN entities : entities[i].name = entity_name
    THEN CHOOSE i \in DOMAIN entities :
             /\ entities[i].name = entity_name
             /\ \A j \in 1..(i - 1) : entities[j].name # entity_name
    ELSE 0

\* Line 228 without its filter: every content string is taken as new.
SelectAll(contents, observations) == contents

RECURSIVE SelectNotIn(_, _)
\* [content for content in contents if content not in observations]:
\* the filter reads the list as it was before the extend of line 229.
SelectNotIn(contents, observations) ==
    IF contents = <<>> THEN <<>>
    ELSE (IF Head(contents) \in Range(observations) THEN <<>> ELSE <<Head(contents)>>)
         \o SelectNotIn(Tail(contents), observations)

\* Line 224-225: a missing entity raises ValueError out of the operation.
AddObservationsAborts(found) == found = 0

RECURSIVE AddObservationsLoopSkips(_, _, _)
\* The loop skipping an entry whose entity is missing, as delete_observations does.
AddObservationsLoopSkips(data, entities, results) ==
    IF data = <<>>
    THEN [raised |-> FALSE, entities |-> entities, result |-> results]
    ELSE LET entity_name == Head(data)["entityName"]
             contents == Head(data)["contents"]
             i == FindEntity(entities, entity_name)
         IN  IF i = 0
             THEN AddObservationsLoopSkips(Tail(data), entities, results)
             ELSE LET new_observations == SelectNotIn(contents, entities[i].observations)
                  IN  AddObservationsLoopSkips(
                          Tail(data),
                          [entities EXCEPT ![i].observations = @ \o new_observations],
                          Append(results, [entityName |-> entity_name,
                                           addedObservations |-> new_observations]))

RECURSIVE AddObservationsLoop(_, _, _)
AddObservationsLoop(data, entities, results) ==
    IF data = <<>>
    THEN [raised |-> FALSE, entities |-> entities, result |-> results]
    ELSE IF ~({"entityName", "contents"} \subseteq DOMAIN Head(data))
    THEN [raised |-> TRUE, entities |-> entities, result |-> <<>>]
    ELSE LET entity_name == Head(data)["entityName"]
             contents == Head(data)["contents"]
             i == FindEntity(entities, entity_name)
         IN  IF AddObservationsAborts(i)
             THEN [raised |-> TRUE, entities |-> entities, result |-> <<>>]
             ELSE LET new_observations == SelectNotIn(contents, entities[i].observations)
                  IN  AddObservationsLoop(
                          Tail(data),
                          [entities EXCEPT ![i].observations = @ \o new_observations],
                          Append(results, [entityName |-> entity_name,
                                           addedObservations |-> new_observations]))

AddObservations(graph, observations_data) ==
    LET r == AddObservationsLoop(observations_data, graph.entities, <<>>)
    IN  [raised |-> r.raised, mutates |-> TRUE,
         graph |-> KnowledgeGraph(r.entities, graph.relations),
         result |-> r.result]

\* ------------------------------------------------- delete_entities (240-258)

\* Line 246: an entity is removed when its name is among entity_names.
EntityNamed(e, entity_names) == e.name \in Range(entity_names)

\* Lines 251-254 testing the from endpoint only.
RelationFrom(r, entity_names) == r.from_entity \in Range(entity_names)

\* Lines 251-254: a relation is removed when its from or its to endpoint is
\* among entity_names.
RelationInvolves(r, entity_names) ==
    r.from_entity \in Range(entity_names) \/ r.to_entity \in Range(entity_names)

\* delete_entities leaving out line 257 when it removed nothing.
DeleteEntitiesSavesIfChanged(graph, entity_names) ==
    [raised |-> FALSE,
     mutates |-> \/ \E i \in DOMAIN graph.entities :
                        EntityNamed(graph.entities[i], entity_names)
                 \/ \E i \in DOMAIN graph.relations :
                        RelationInvolves(graph.relations[i], entity_names),
     graph |-> KnowledgeGraph(
         SelectSeq(graph.entities, LAMBDA e : ~EntityNamed(e, entity_names)),
         SelectSeq(graph.relations, LAMBDA r : ~RelationInvolves(r, entity_names))),
     result |-> <<>>]

\* delete_entities returns None; the counts of lines 247 and 255 are only logged.
DeleteEntities(graph, entity_names) ==
    [raised |-> FALSE, mutates |-> TRUE,
     graph |-> KnowledgeGraph(
         SelectSeq(graph.entities, LAMBDA e : ~EntityNamed(e, entity_names)),
         SelectSeq(graph.relations, LAMBDA r : ~RelationInvolves(r, entity_names))),
     result |-> <<>>]

\* --------------------------------------------- delete_observations (260-278)

RECURSIVE DeleteObservationsLoopAborts(_, _)
\* The loop raising on an entry whose entity is missing, as add_observations does.
DeleteObservationsLoopAborts(data, entities) ==
    IF data = <<>>
    THEN [raised |-> FALSE, entities |-> entities]
    ELSE LET i == FindEntity(entities, Head(data)["entityName"])
             observations_to_delete == Range(Head(data)["observations"])
         IN  IF i # 0
             THEN DeleteObservationsLoopAborts(
                      Tail(data),
                      [entities EXCEPT ![i].observations =
                           SelectSeq(@, LAMBDA obs : obs \notin observations_to_delete)])
             ELSE [raised |-> TRUE, entities |-> entities]

RECURSIVE DeleteObservationsLoopStops(_, _)
\* The loop left, without error, at the first entry whose entity is missing.
DeleteObservationsLoopStops(data, entities) ==
    IF data = <<>>
    THEN [raised |-> FALSE, entities |-> entities]
    ELSE LET i == FindEntity(entities, Head(data)["entityName"])
             observations_to_delete == Range(Head(data)["observations"])
         IN  IF i # 0
             THEN DeleteObservationsLoopStops(
                      Tail(data),
                      [entities EXCEPT ![i].observations =
                           SelectSeq(@, LAMBDA obs : obs \notin observations_to_delete)])
             ELSE [raised |-> FALSE, entities |-> entities]

RECURSIVE DeleteObservationsLoop(_, _)
DeleteObservationsLoop(data, entities) ==
    IF data = <<>>
    THEN [raised |-> FALSE, entities |-> entities]
    ELSE IF ~({"entityName", "observations"} \subseteq DOMAIN Head(data))
    THEN [raised |-> TRUE, entities |-> entities]
    ELSE LET i == FindEntity(entities, Head(data)["entityName"])
             observations_to_delete == Range(Head(data)["observations"])
         IN  IF i # 0
             THEN DeleteObservationsLoop(
                      Tail(data),
                      [entities EXCEPT ![i].observations =
                           SelectSeq(@, LAMBDA obs : obs \notin observations_to_delete)])
             ELSE DeleteObservationsLoop(Tail(data), entities)

DeleteObservations(graph, deletions_data) ==
    LET r == DeleteObservationsLoop(deletions_data, graph.entities)
    IN  [raised |-> r.raised, mutates |-> TRUE,
         graph |-> KnowledgeGraph(r.entities, graph.relations),
         result |-> <<>>]

\* ------------------------------------------------ delete_relations (280-297)

\* Lines 284-293 comparing the two endpoints only.
DeleteRelationsByEndpoints(graph, relations_data) ==
    IF \E i \in DOMAIN relations_data : RelationFromDictRaises(relations_data[i])
    THEN [raised |-> TRUE, mutates |-> TRUE, graph |-> graph, result |-> <<>>]
    ELSE [raised |-> FALSE, mutates |-> TRUE,
          graph |-> KnowledgeGraph(
              graph.entities,
              SelectSeq(graph.relations,
                        LAMBDA r : \A i \in DOMAIN relations_data :
                                       \/ r.from_entity # relations_data[i]["from"]
                                       \/ r.to_entity # relations_data[i]["to"])),
          result |-> <<>>]

DeleteRelations(graph, relations_data) ==
    IF \E i \in DOMAIN relations_data : RelationFromDictRaises(relations_data[i])
    THEN [raised |-> TRUE, mutates |-> TRUE, graph |-> graph, result |-> <<>>]
    ELSE LET relations_to_delete ==
                 {RelationKey(RelationFromDict(relations_data[i])) : i \in DOMAIN relations_data}
         IN  [raised |-> FALSE, mutates |-> TRUE,
              graph |-> KnowledgeGraph(
                  graph.entities,
                  SelectSeq(graph.relations,
                            LAMBDA r : RelationKey(r) \notin relations_to_delete)),
              result |-> <<>>]

\* ------------------------------------------------------ read_graph (299-303)

\* read_graph ending in a save, as the mutating operations do.
ReadGraphSaves(graph) ==
    [raised |-> FALSE, mutates |-> TRUE, graph |-> graph, result |-> graph]

ReadGraph(graph) ==
    [raised |-> FALSE, mutates |-> FALSE, graph |-> graph, result |-> graph]

\* ---------------------------------------------------- search_nodes (305-330)

\* Lines 313-315 with the name compared as written, not lowered.
EntityMatchesNameAsWritten(entity, query_lower) ==
    \/ StrContains(query_lower, entity.name)
    \/ StrContains(query_lower, StrLower(entity.entity_type))
    \/ \E k \in DOMAIN entity.observations :
           StrContains(query_lower, StrLower(entity.observations[k]))

\* Lines 313-315: the entity matches when the lowered query occurs in its
\* lowered name, its lowered type or one of its lowered observations.
EntityMatches(entity, query_lower) ==
    \/ StrContains(query_lower, StrLower(entity.name))
    \/ StrContains(query_lower, StrLower(entity.entity_type))
    \/ \E k \in DOMAIN entity.observations :
           StrContains(query_lower, StrLower(entity.observations[k]))

\* Lines 322-326 and 347-351: a relation is returned when both endpoints are
\* names of returned entities.
RelationBetween(relation, filtered_entity_names) ==
    /\ relation.from_entity \in filtered_entity_names
    /\ relation.to_entity \in filtered_entity_names

SearchNodes(graph, query) ==
    LET query_lower == StrLower(query)
        filtered_entities ==
            SelectSeq(graph.entities, LAMBDA e : EntityMatches(e, query_lower))
        filtered_entity_names == {filtered_entities[i].name : i \in DOMAIN filtered_entities}
    IN  [raised |-> FALSE, mutates |-> FALSE, graph |-> graph,
         result |-> KnowledgeGraph(
             filtered_entities,
             SelectSeq(graph.relations,
                       LAMBDA r : RelationBetween(r, filtered_entity_names)))]

\* ------------------------------------------------------ open_nodes (332-355)

\* Line 340: the entity is kept when its name is in the requested set.
NameRequested(entity, names_set) == entity.name \in names_set

\* open_nodes filtering the relations by the requested names, not by the
\* names of the entities found.
OpenNodesByRequested(graph, names) ==
    LET names_set == Range(names)
        filtered_entities ==
            SelectSeq(graph.entities, LAMBDA e : NameRequested(e, names_set))
    IN  [raised |-> FALSE, mutates |-> FALSE, graph |-> graph,
         result |-> KnowledgeGraph(
             filtered_entities,
             SelectSeq(graph.relations, LAMBDA r : RelationBetween(r, names_set)))]

OpenNodes(graph, names) ==
    LET names_set == Range(names)
        filtered_entities ==
            SelectSeq(graph.entities, LAMBDA e : NameRequested(e, names_set))
        filtered_entity_names == {filtered_entities[i].name : i \in DOMAIN filtered_entities}
    IN  [raised |-> FALSE, mutates |-> FALSE, graph |-> graph,
         result |-> KnowledgeGraph(
             filtered_entities,
             SelectSeq(graph.relations,
                       LAMBDA r : RelationBetween(r, filtered_entity_names)))]

\* ------------------------------------------------------------- arguments

\* Entity specs as callers pass them (wire field names): two specs share a
\* name, one has no "observations" (from_dict defaults it), one has no "name".
EntitySpecs ==
    {[name |-> NameA, entityType |-> TypeT],
     [name |-> NameA, entityType |-> TypeB, observations |-> <<ObsX>>],
     [name |-> NameAb, entityType |-> TypeT, observations |-> <<ObsBa>>],
     [entityType |-> TypeT]}

RelationSpecs ==
    {[from |-> NameA, to |-> NameAb, relationType |-> RelKnows],
     [from |-> NameA, to |-> NameAb, relationType |-> RelUses]}

ObservationSpecs ==
    {[entityName |-> NameA, contents |-> <<ObsX>>],
     [entityName |-> NameA, contents |-> <<ObsBa, ObsX>>],
     [entityName |-> NameAb, contents |-> <<ObsX, ObsX>>]}

\* Triples as callers of delete_relations pass them: those create_relations
\* is given, one that differs from the first in `from` only and one that
\* differs from the second in `to` only.
RelationDeletionSpecs ==
    RelationSpecs
    \cup {[from |-> NameAb, to |-> NameAb, relationType |-> RelKnows],
          [from |-> NameA, to |-> NameA, relationType |-> RelUses]}

DeletionSpecs ==
    {[entityName |-> NameA, observations |-> <<ObsX>>],
     [entityName |-> NameA, observations |-> <<ObsBa>>],
     [entityName |-> NameAb, observations |-> <<ObsX, ObsBa>>]}

\* ---------------------------------------------------------------- actions

\* One store call, from its load to its return: `out` is what the operation
\* makes of the loaded graph. A mutating operation that does not raise saves.
\* `last` is the call as its caller sees it, with the file as it was before.
Call(op, args, out, again) ==
    /\ file' = IF out.mutates /\ ~out.raised THEN SaveGraph(out.graph) ELSE file
    /\ last' = [op |-> op, args |-> args, before |-> file,
                loaded |-> LoadGraph(file), raised |-> out.raised,
                saved |-> out.mutates /\ ~out.raised,
                result |-> out.result, again |-> again]
    /\ UNCHANGED <<tasks, events, mcp_queries>>

\* The operation `op` names, applied to a loaded graph.
Apply(op, graph, args) ==
    CASE op = "create_entities" -> CreateEntities(graph, args)
      [] op = "create_relations" -> CreateRelations(graph, args)
      [] op = "add_observations" -> AddObservations(graph, args)
      [] op = "delete_entities" -> DeleteEntities(graph, args)
      [] op = "delete_observations" -> DeleteObservations(graph, args)
      [] op = "delete_relations" -> DeleteRelations(graph, args)
      [] op = "read_graph" -> ReadGraph(graph)
      [] op = "search_nodes" -> SearchNodes(graph, args)
      [] op = "open_nodes" -> OpenNodes(graph, args)

Idle == last.op = "none"

create_entities ==
    /\ Idle
    /\ \E entities_data \in SeqsUpTo(EntitySpecs, MaxBatch) :
           Call("create_entities", entities_data,
                CreateEntities(LoadGraph(file), entities_data), FALSE)

create_relations ==
    /\ Idle
    /\ \E relations_data \in SeqsUpTo(RelationSpecs, MaxBatch) :
           Call("create_relations", relations_data,
                CreateRelations(LoadGraph(file), relations_data), FALSE)

add_observations ==
    /\ Idle
    /\ \E observations_data \in SeqsUpTo(ObservationSpecs, MaxBatch) :
           Call("add_observations", observations_data,
                AddObservations(LoadGraph(file), observations_data), FALSE)

delete_entities ==
    /\ Idle
    /\ \E entity_names \in SeqsUpTo(Names, MaxBatch) :
           Call("delete_entities", entity_names,
                DeleteEntities(LoadGraph(file), entity_names), FALSE)

delete_observations ==
    /\ Idle
    /\ \E deletions_data \in SeqsUpTo(DeletionSpecs, MaxBatch) :
           Call("delete_observations", deletions_data,
                DeleteObservations(LoadGraph(file), deletions_data), FALSE)

delete_relations ==
    /\ Idle
    /\ \E relations_data \in SeqsUpTo(RelationDeletionSpecs, MaxBatch) :
           Call("delete_relations", relations_data,
                DeleteRelations(LoadGraph(file), relations_data), FALSE)

read_graph ==
    /\ Idle
    /\ Call("read_graph", <<>>, ReadGraph(LoadGraph(file)), FALSE)

search_nodes ==
    /\ Idle
    /\ \E query \in Queries :
           Call("search_nodes", query, SearchNodes(LoadGraph(file), query), FALSE)

open_nodes ==
    /\ Idle
    /\ \E names \in SeqsUpTo(Names, MaxBatch) :
           Call("open_nodes", names, OpenNodes(LoadGraph(file), names), FALSE)

NoCall ==
    [op |-> "none", args |-> <<>>, before |-> MissingFile, loaded |-> EmptyGraph,
     raised |-> FALSE, saved |-> FALSE, result |-> <<>>, again |-> FALSE]

\* The caller issues the call it has just made once more, with the same
\* arguments, before anything else happens to the store.
CallAgain ==
    /\ ~Idle
    /\ ~last.again
    /\ Call(last.op, last.args, Apply(last.op, LoadGraph(file), last.args), TRUE)

\* The caller has taken the result; the next call may be any call.
Return ==
    /\ ~Idle
    /\ last' = NoCall
    /\ UNCHANGED <<file, tasks, events, mcp_queries>>

\* The store before its first call: the persistence file is missing or empty.
Init ==
    /\ file \in {MissingFile, FileOf(<<>>)}
    /\ last = NoCall
    /\ tasks = <<>>
    /\ events = <<>>
    /\ mcp_queries = <<>>

Next ==
    \/ create_entities
    \/ create_relations
    \/ add_observations
    \/ delete_entities
    \/ delete_observations
    \/ delete_relations
    \/ read_graph
    \/ search_nodes
    \/ open_nodes
    \/ CallAgain
    \/ Return

Spec == Init /\ [][Next]_vars

\* ------------------------------------------- a file of arbitrary content

\* Lines a persistence file may hold that no save wrote: records without a
\* required field, a record of unknown type, a JSON value that is no object,
\* a line that is not JSON, a blank line; and two well-formed records.
ArbitraryLines ==
    {ObjectLine([type |-> "entity", name |-> NameA, entityType |-> TypeT,
                 observations |-> <<ObsX>>]),
     ObjectLine([type |-> "relation", from |-> NameA, to |-> NameAb,
                 relationType |-> RelKnows]),
     ObjectLine([type |-> "entity", entityType |-> TypeT, observations |-> <<>>]),
     ObjectLine([type |-> "relation", from |-> NameA, to |-> NameAb]),
     ObjectLine([type |-> "note", name |-> NameA]),
     ValueLine,
     TextLine,
     BlankLine}

InitAnyFile ==
    /\ file \in {MissingFile} \cup {FileOf(l) : l \in SeqsUpTo(ArbitraryLines, MaxLines)}
    /\ last = NoCall
    /\ tasks = <<>>
    /\ events = <<>>
    /\ mcp_queries = <<>>

\* The store calls of one sequential caller, on a file of arbitrary content.
SpecAnyFile == InitAnyFile /\ [][Next]_vars

\* --------------------------------------------------------- save, then load

\* Entities and relations as the data classes hold them in memory.
EntityValues ==
    {Entity(NameA, TypeT, <<>>),
     Entity(NameA, TypeB, <<ObsX>>),
     Entity(NameAb, TypeT, <<ObsBa, ObsX>>)}

RelationValues ==
    {Relation(NameA, NameAb, RelKnows),
     Relation(NameAb, NameA, RelUses)}

\* Graphs a caller of save_graph may hold: any entities in any order, names
\* repeated or not, and any relations, their endpoints entities or not.
Graphs ==
    {KnowledgeGraph(es, rs) : es \in SeqsUpTo(EntityValues, MaxBatch),
                              rs \in SeqsUpTo(RelationValues, MaxBatch)}

\* await self.save_graph(graph), called on its own.
save_graph ==
    /\ Idle
    /\ \E graph \in Graphs :
           /\ file' = SaveGraph(graph)
           /\ last' = [op |-> "save_graph", args |-> graph, before |-> file,
                       loaded |-> EmptyGraph, raised |-> FALSE, saved |-> TRUE,
                       result |-> <<>>, again |-> FALSE]
    /\ UNCHANGED <<tasks, events, mcp_queries>>

\* await self.load_graph(), called after that save.
load_graph ==
    /\ last.op = "save_graph"
    /\ last' = [last EXCEPT !.op = "load_graph", !.loaded = LoadGraph(file),
                            !.saved = FALSE, !.result = LoadGraph(file)]
    /\ UNCHANGED <<file, tasks, events, mcp_queries>>

NextSaveLoad == save_graph \/ load_graph \/ Return

\* A caller that saves graphs of its own making and loads them back.
SpecSaveLoad == Init /\ [][NextSaveLoad]_vars

\* ------------------------------------------------------- concurrent calls

\* The mutating calls two concurrent callers make.
ConcurrentCalls ==
    {[op |-> "create_entities",
      args |-> <<[name |-> NameA, entityType |-> TypeT]>>],
     [op |-> "create_entities",
      args |-> <<[name |-> NameAb, entityType |-> TypeT, observations |-> <<ObsBa>>]>>],
     [op |-> "add_observations",
      args |-> <<[entityName |-> NameA, contents |-> <<ObsX>>]>>],
     [op |-> "delete_entities", args |-> <<NameA>>]}

\* Files the concurrent calls start from: empty, or holding one entity.
StartFiles ==
    {FileOf(<<>>),
     SaveGraph(KnowledgeGraph(<<Entity(NameA, TypeB, <<>>)>>, <<>>))}

\* A call that has not started: the event loop it runs on, and what it calls.
NewTask(loop, call) ==
    [loop |-> loop, op |-> call.op, args |-> call.args, pc |-> "ready",
     seen |-> MissingFile, graph |-> EmptyGraph, raised |-> FALSE,
     saved |-> FALSE, result |-> <<>>]

\* load_graph as an await that hands control back to the event loop.
LoadSuspendsAtIO == TRUE

\* load_graph and save_graph are coroutines without an await of their own:
\* "await self.load_graph()" runs to its return without leaving the caller,
\* so a store operation is one uninterrupted run of its event loop.
LoadSuspends == FALSE

\* An event loop that starts a coroutine whatever its other coroutines are
\* in the middle of.
LoopFreeAlways(t) == TRUE

\* The event loop of task t is free to start it: no other coroutine of that
\* loop is between its load and its save.
LoopFree(t) ==
    \/ LoadSuspends
    \/ \A u \in DOMAIN tasks :
           (u # t /\ tasks[u].loop = tasks[t].loop) => tasks[u].pc # "loaded"

\* graph = await self.load_graph(): the first line of every operation.
TaskLoad(t) ==
    /\ tasks[t].pc = "ready"
    /\ LoopFree(t)
    /\ tasks' = [tasks EXCEPT ![t].pc = "loaded", ![t].seen = file,
                              ![t].graph = LoadGraph(file)]
    /\ events' = Append(events, <<"load", t>>)
    /\ UNCHANGED <<file, last, mcp_queries>>

\* The rest of the operation: the change to the loaded graph, then
\* await self.save_graph(graph) and the return; a raise skips the save.
TaskSave(t) ==
    /\ tasks[t].pc = "loaded"
    /\ LET out == Apply(tasks[t].op, tasks[t].graph, tasks[t].args)
       IN  /\ file' = IF out.mutates /\ ~out.raised THEN SaveGraph(out.graph) ELSE file
           /\ tasks' = [tasks EXCEPT ![t].pc = "done", ![t].raised = out.raised,
                                     ![t].saved = out.mutates /\ ~out.raised,
                                     ![t].result = out.result]
           /\ events' = IF out.mutates /\ ~out.raised
                        THEN Append(events, <<"save", t>>) ELSE events
    /\ UNCHANGED <<last, mcp_queries>>

TaskLoads == \E t \in DOMAIN tasks : TaskLoad(t)

TaskSaves == \E t \in DOMAIN tasks : TaskSave(t)

\* Two calls in flight at once, on one event loop (the server's) or on the
\* event loops of two processes that were given the same file path.
InitConcurrent ==
    /\ file \in StartFiles
    /\ last = NoCall
    /\ \E loop \in {1, 2}, c1, c2 \in ConcurrentCalls :
           tasks = <<NewTask(1, c1), NewTask(loop, c2)>>
    /\ events = <<>>
    /\ mcp_queries = <<>>

NextConcurrent == TaskLoads \/ TaskSaves

SpecConcurrent == InitConcurrent /\ [][NextConcurrent]_vars

\* ------------------------------------------- one call, access by access

\* The mutating calls of one caller, with every batch up to MaxBatch.
MutatingCalls ==
    {[op |-> "create_entities", args |-> a] : a \in SeqsUpTo(EntitySpecs, MaxBatch)}
    \cup {[op |-> "create_relations", args |-> a] : a \in SeqsUpTo(RelationSpecs, MaxBatch)}
    \cup {[op |-> "add_observations", args |-> a] :
             a \in SeqsUpTo(ObservationSpecs, MaxBatch)}
    \cup {[op |-> "delete_entities", args |-> a] : a \in SeqsUpTo(Names, MaxBatch)}
    \cup {[op |-> "delete_observations", args |-> a] :
             a \in SeqsUpTo(DeletionSpecs, MaxBatch)}
    \cup {[op |-> "delete_relations", args |-> a] : a \in SeqsUpTo(RelationSpecs, MaxBatch)}

\* Files the call starts from: missing, empty, and files earlier calls
\* saved, the last with two entities and both relations between them.
AccessFiles ==
    {MissingFile} \cup StartFiles
    \cup {SaveGraph(KnowledgeGraph(
              <<Entity(NameA, TypeT, <<ObsX>>), Entity(NameAb, TypeT, <<ObsBa>>)>>,
              <<Relation(NameA, NameAb, RelKnows), Relation(NameA, NameAb, RelUses)>>))}

InitAccesses ==
    /\ file \in AccessFiles
    /\ last = NoCall
    /\ \E c \in MutatingCalls : tasks = <<NewTask(1, c)>>
    /\ events = <<>>
    /\ mcp_queries = <<>>

NextAccesses == TaskLoads \/ TaskSaves

\* One caller making one mutating call, seen file access by file access.
SpecAccesses == InitAccesses /\ [][NextAccesses]_vars

\* ------------------------------------------------------ the JSON-RPC server

\* Longest audit table: the server takes requests while the table is shorter.
MaxQueries == 1

\* The nine store methods, lines 1027-1271.
StoreMethods ==
    {"memory_create_entities", "memory_create_relations", "memory_add_observations",
     "memory_delete_entities", "memory_delete_observations",
     "memory_delete_relations", "memory_read_graph", "memory_search_nodes",
     "memory_open_nodes"}

\* METHOD_HANDLERS: every name a @register_method decorator has registered
\* when the module is imported.
METHOD_HANDLERS ==
    StoreMethods
    \cup {"echo", "time", "ping", "tools.list", "calculate", "server.info",
          "initialize", "tools/list", "tools/call", "prompts/list",
          "resources/list", "notifications/initialized",
          "sequential_thinking", "quick_analysis",
          "critical_thinking", "critical_analysis_history",
          "critical_analysis_stats",
          "lateral_thinking", "lateral_thinking_history",
          "lateral_thinking_stats",
          "root_cause_analysis", "root_cause_analysis_history",
          "root_cause_analysis_stats",
          "systems_thinking", "systems_thinking_history",
          "systems_thinking_stats",
          "memory_sync_to_database", "memory_use_structures_analysis"}

\* The registered handlers decorated with @mcp_tool_wrapper.
WrappedMethods ==
    StoreMethods
    \cup {"echo", "time", "ping", "calculate", "sequential_thinking",
          "quick_analysis", "critical_thinking", "lateral_thinking",
          "root_cause_analysis", "systems_thinking",
          "memory_sync_to_database", "memory_use_structures_analysis"}

\* The names of the tools handle_tools_list advertises, lines 311-847.
ToolsList ==
    {"echo", "time", "ping", "calculate", "sequential_thinking",
     "quick_analysis", "memory_create_entities", "memory_create_relations",
     "memory_add_observations", "memory_delete_entities",
     "memory_delete_observations", "memory_delete_relations",
     "memory_read_graph", "memory_search_nodes", "memory_open_nodes",
     "critical_thinking", "critical_analysis_history",
     "critical_analysis_stats", "lateral_thinking",
     "lateral_thinking_history", "lateral_thinking_stats",
     "root_cause_analysis", "root_cause_analysis_history",
     "root_cause_analysis_stats", "systems_thinking",
     "systems_thinking_history", "systems_thinking_stats"}

\* The keys of tool_method_map in handle_tools_call, lines 868-896.
ToolMethodNames ==
    {"echo", "time", "ping", "calculate", "sequential_thinking",
     "quick_analysis", "memory_create_entities", "memory_create_relations",
     "memory_add_observations", "memory_delete_entities",
     "memory_delete_observations", "memory_delete_relations",
     "memory_read_graph", "memory_search_nodes", "memory_open_nodes",
     "critical_thinking", "critical_analysis_history",
     "critical_analysis_stats", "lateral_thinking",
     "lateral_thinking_history", "lateral_thinking_stats",
     "root_cause_analysis", "root_cause_analysis_history",
     "root_cause_analysis_stats", "systems_thinking",
     "systems_thinking_history", "systems_thinking_stats"}

\* tool_method_map without its three memory read tools.
ToolMethodMapWithoutReads ==
    [t \in ToolMethodNames \ {"memory_read_graph", "memory_search_nodes",
                               "memory_open_nodes"} |-> t]

\* tool_method_map: every key maps to the method of the same name.
tool_method_map == [t \in ToolMethodNames |-> t]

\* The store operation behind a registered method.
StoreOperation(method) ==
    CASE method = "memory_create_entities" -> "create_entities"
      [] method = "memory_create_relations" -> "create_relations"
      [] method = "memory_add_observations" -> "add_observations"
      [] method = "memory_delete_entities" -> "delete_entities"
      [] method = "memory_delete_observations" -> "delete_observations"
      [] method = "memory_delete_relations" -> "delete_relations"
      [] method = "memory_read_graph" -> "read_graph"
      [] method = "memory_search_nodes" -> "search_nodes"
      [] method = "memory_open_nodes" -> "open_nodes"

\* The member of params a handler reads its list from.
ParamName(method) ==
    CASE method = "memory_create_entities" -> "entities"
      [] method = "memory_create_relations" -> "relations"
      [] method = "memory_add_observations" -> "observations"
      [] method = "memory_delete_entities" -> "entityNames"
      [] method = "memory_delete_observations" -> "deletions"
      [] method = "memory_delete_relations" -> "relations"
      [] method = "memory_search_nodes" -> "query"
      [] method = "memory_open_nodes" -> "names"
      [] OTHER -> "none"

\* params that are None or an empty object.
NoParams == <<>>

\* The two checks every handler but read_graph's starts with: params is a
\* non-empty dict, and its list member is present and not empty.
HandlerRejects(method, params) ==
    /\ method # "memory_read_graph"
    /\ \/ DOMAIN params = {}
       \/ ParamName(method) \notin DOMAIN params
       \/ params[ParamName(method)] = <<>>

\* How the write of the file can end: "ok"; "open" when makedirs or open
\* raises, before the file is touched; "write" when the write raises after
\* open has truncated the file, `cut` whole lines having reached the file,
\* followed, when `torn`, by the beginning of the next line.
SaveOutcomes(lines) ==
    {[kind |-> "ok", cut |-> 0, torn |-> FALSE],
     [kind |-> "open", cut |-> 0, torn |-> FALSE]}
    \cup {[kind |-> "write", cut |-> k, torn |-> t] :
             k \in 0..(Len(lines) - 1), t \in BOOLEAN}

\* No save is reached: the operation raised before it, or does not save.
NoSave == [kind |-> "none", cut |-> 0, torn |-> FALSE]

\* What a written part of `lines` leaves in the file.
WrittenPart(lines, io) ==
    FileOf(SubSeq(lines, 1, io.cut) \o (IF io.torn THEN <<TextLine>> ELSE <<>>))

\* Line 168 without its raise: the error is logged and save_graph returns.
SaveGraphSwallows == FALSE

\* Lines 166-168: save_graph logs the exception and raises it again.
SaveGraphReraises == TRUE

\* save_graph when the write ends as io says: the file it leaves, whether
\* the graph was written, and whether it raises.
SaveGraphEnds(f, graph, io) ==
    CASE io.kind = "ok" ->
             [raised |-> FALSE, saved |-> TRUE, file |-> SaveGraph(graph)]
      [] io.kind = "open" ->
             [raised |-> SaveGraphReraises, saved |-> FALSE, file |-> f]
      [] OTHER ->
             [raised |-> SaveGraphReraises, saved |-> FALSE,
              file |-> WrittenPart(SaveGraph(graph).lines, io)]

\* The end of a store operation that made `out` of the loaded graph: a
\* raise before the save, a return without save, or the save and what the
\* save raises.
StoreCallEnds(f, out, end) ==
    IF out.raised
    THEN [raised |-> TRUE, saved |-> FALSE, file |-> f, result |-> <<>>]
    ELSE IF ~out.mutates
    THEN [raised |-> FALSE, saved |-> FALSE, file |-> f, result |-> out.result]
    ELSE [raised |-> end.raised, saved |-> end.saved, file |-> end.file,
          result |-> out.result]

\* One store operation on file f, from its load to its return or raise.
StoreCallOf(f, out, io) == StoreCallEnds(f, out, SaveGraphEnds(f, out.graph, io))

StoreCall(f, op, args, io) == StoreCallOf(f, Apply(op, LoadGraph(f), args), io)

\* How the save of a store operation that made `out` can end.
SaveOutcomesOf(out) ==
    IF out.raised \/ ~out.mutates THEN {NoSave}
    ELSE SaveOutcomes(SaveGraph(out.graph).lines)

\* KnowledgeGraph.to_dict.
GraphToDict(graph) ==
    [entities |-> [i \in DOMAIN graph.entities |-> EntityToDict(graph.entities[i])],
     relations |-> [i \in DOMAIN graph.relations |-> RelationToDict(graph.relations[i])]]

\* The dict a handler returns, built from what the memory_* function
\* returned; the delete functions return a message with the length of the
\* list they were given.
HandlerResult(method, data, result) ==
    CASE method = "memory_create_entities" ->
             [method |-> method,
              created_entities |-> [i \in DOMAIN result |-> EntityToDict(result[i])],
              count |-> Len(result)]
      [] method = "memory_create_relations" ->
             [method |-> method,
              created_relations |-> [i \in DOMAIN result |-> RelationToDict(result[i])],
              count |-> Len(result)]
      [] method = "memory_add_observations" ->
             [method |-> method, results |-> result]
      [] method = "memory_delete_entities" ->
             [method |-> method, deleted_count |-> Len(data),
              result |-> <<"Successfully deleted", Len(data), "entities">>]
      [] method = "memory_delete_observations" ->
             [method |-> method,
              result |-> <<"Successfully deleted observations from", Len(data), "entities">>]
      [] method = "memory_delete_relations" ->
             [method |-> method,
              result |-> <<"Successfully deleted", Len(data), "relations">>]
      [] method = "memory_read_graph" ->
             [method |-> method, knowledge_graph |-> GraphToDict(result),
              entities_count |-> Len(result.entities),
              relations_count |-> Len(result.relations)]
      [] method = "memory_search_nodes" ->
             [method |-> method, query |-> data,
              search_results |-> GraphToDict(result),
              entities_found |-> Len(result.entities),
              relations_found |-> Len(result.relations)]
      [] method = "memory_open_nodes" ->
             [method |-> method, requested_names |-> data,
              opened_nodes |-> GraphToDict(result),
              entities_found |-> Len(result.entities),
              relations_found |-> Len(result.relations)]

\* The list a handler hands to the memory_* function.
ParamData(method, params) ==
    IF method = "memory_read_graph" THEN <<>> ELSE params[ParamName(method)]

\* The try block of a handler, the memory_* call having ended as `call`:
\* every exception of that call is raised again as ValueError.
HandlerEnds(method, data, call) ==
    [raised |-> call.raised, called |-> TRUE, store_raised |-> call.raised,
     saved |-> call.saved, file |-> call.file,
     result |-> IF call.raised THEN <<>>
                ELSE HandlerResult(method, data, call.result)]

\* handle_memory_*: the checks, then the memory_* call inside try.
Handler(f, method, params, io) ==
    IF HandlerRejects(method, params)
    THEN [raised |-> TRUE, called |-> FALSE, store_raised |-> FALSE,
          saved |-> FALSE, file |-> f, result |-> <<>>]
    ELSE HandlerEnds(method, ParamData(method, params),
                     StoreCall(f, StoreOperation(method), ParamData(method, params), io))

\* How the insert into mcp_queries can end: "ok"; "fails" when the insert
\* raises and create_mcp_query rolls back and returns False; "raises" when
\* create_mcp_query itself raises (no connection).
DbOutcomes == {"ok", "fails", "raises"}

\* log_query without its try: what create_mcp_query raises reaches the wrapper.
LogQueryPropagates(db) == db = "raises"

\* MCPQueryLogger.log_query, lines 29-55: every exception is caught, logged
\* and answered with an empty query id.
LogQueryRaises(db) == FALSE

\* The rows log_query adds to the table.
LogQuery(tool_name, success, db) ==
    IF db = "ok" THEN <<[tool_name |-> tool_name, success |-> success]>> ELSE <<>>

\* Line 124 without its raise: the wrapper returns None after logging.
WrapperSwallows == FALSE

\* Line 124: the wrapper raises the handler's exception again.
WrapperReraises == TRUE

\* mcp_tool_wrapper: the handler's outcome h as the wrapper passes it on,
\* and the rows it logs. The log of a success is inside the try block, so a
\* log_query that raised would be handled as a failure of the tool.
Wrapper(tool_name, h, db) ==
    IF ~h.raised
    THEN IF LogQueryRaises(db)
         THEN [raised |-> TRUE, result |-> <<>>, rows |-> LogQuery(tool_name, FALSE, db)]
         ELSE [raised |-> FALSE, result |-> h.result,
               rows |-> LogQuery(tool_name, TRUE, db)]
    ELSE [raised |-> WrapperReraises \/ LogQueryRaises(db), result |-> <<>>,
          rows |-> LogQuery(tool_name, FALSE, db)]

\* create_error_response and create_success_response.
ErrorResponse(code, id) == [kind |-> "error", code |-> code, id |-> id, result |-> <<>>]
SuccessResponse(result, id) == [kind |-> "result", code |-> 0, id |-> id, result |-> result]

METHOD_NOT_FOUND == 0 - 32601
INTERNAL_ERROR == 0 - 32603

\* Lines 1580-1594 of handle_mcp_request: the handler having ended as h and
\* its wrapper as w, a success response, or an error response for whatever
\* was raised.
Respond(request, h, w) ==
    [response |-> IF w.raised
                  THEN ErrorResponse(INTERNAL_ERROR, request.id)
                  ELSE SuccessResponse(w.result, request.id),
     file |-> h.file, rows |-> w.rows, called |-> h.called,
     store_raised |-> h.store_raised, handler_raised |-> w.raised,
     saved |-> h.saved, tool |-> "none"]

\* The registered handler is the wrapper around handle_memory_*.
WrappedHandler(request, h, db) == Respond(request, h, Wrapper(request.method, h, db))

\* The registered handlers that return whatever their params are.
AlwaysReturns ==
    {"echo", "time", "ping", "tools.list", "tools/list", "server.info",
     "initialize", "prompts/list", "resources/list",
     "notifications/initialized"}

\* The handlers outside the store that start with
\* `if not params or not isinstance(params, dict): raise ValueError`.
RequiresParams ==
    {"calculate", "sequential_thinking", "quick_analysis", "critical_thinking",
     "lateral_thinking", "root_cause_analysis", "systems_thinking"}

\* How the work of a handler outside the store ends.
ToolReturns == [kind |-> "returns", cut |-> 0, torn |-> FALSE]
ToolRaises == [kind |-> "raises", cut |-> 0, torn |-> FALSE]

\* A handler outside the store rejects its params before any work.
OtherHandlerRejects(method, params) ==
    method \in RequiresParams /\ DOMAIN params = {}

\* How the work of the handler of `method` can end: the analysis and
\* history functions return or raise, as their input and database decide.
ToolOutcomes(method, params) ==
    IF method \in AlwaysReturns THEN {ToolReturns}
    ELSE IF OtherHandlerRejects(method, params) THEN {NoSave}
    ELSE {ToolReturns, ToolRaises}

\* A registered handler outside the store: it never touches the
\* persistence file.
OtherHandler(f, method, params, io) ==
    [raised |-> OtherHandlerRejects(method, params) \/ io.kind = "raises",
     called |-> FALSE, store_raised |-> FALSE, saved |-> FALSE, file |-> f,
     result |-> IF OtherHandlerRejects(method, params) \/ io.kind = "raises"
                THEN <<>> ELSE [method |-> method]]

\* The function behind a registered name, applied to params.
HandlerOf(f, method, params, io) ==
    IF method \in StoreMethods THEN Handler(f, method, params, io)
    ELSE OtherHandler(f, method, params, io)

\* A handler registered without @mcp_tool_wrapper: nothing is logged.
Unwrapped(h) == [raised |-> h.raised, result |-> h.result, rows |-> <<>>]

\* METHOD_HANDLERS[method](params): the registered function, with its
\* wrapper when it has one.
Registered(method, h, db) ==
    IF method \in WrappedMethods THEN Wrapper(method, h, db) ELSE Unwrapped(h)

\* handle_tools_call after its lookup, lines 902-916: the handler h having
\* ended as w, its exception is not caught, its result is formatted as
\* text content.
ToolsCallEnds(h, w) ==
    [raised |-> w.raised,
     result |-> IF w.raised THEN <<>>
                ELSE [content |-> <<[type |-> "text", text |-> JsonDumps(w.result)]>>,
                      isError |-> FALSE],
     rows |-> w.rows, file |-> h.file, called |-> h.called,
     store_raised |-> h.store_raised, saved |-> h.saved, tool |-> "found"]

ToolsCallOf(internal_method, h, db) ==
    ToolsCallEnds(h, Registered(internal_method, h, db))

\* handle_tools_call raising before any handler runs.
ToolsCallRaises(f, tool) ==
    [raised |-> TRUE, result |-> <<>>, rows |-> <<>>, file |-> f,
     called |-> FALSE, store_raised |-> FALSE, saved |-> FALSE, tool |-> tool]

\* Line 860: params is a non-empty dict; line 866: it has a name.
ToolsCallRejects(params) ==
    \/ DOMAIN params = {}
    \/ "name" \notin DOMAIN params
    \/ params.name = ""

\* Line 898-900: the tool name is a key of the map and its method is
\* registered.
ToolFound(map, tool_name) ==
    /\ tool_name \in DOMAIN map
    /\ map[tool_name] \in METHOD_HANDLERS

\* Line 863: params.get("arguments", {}).
ToolArguments(params) ==
    IF "arguments" \in DOMAIN params THEN params.arguments ELSE NoParams

\* handle_tools_call.
ToolsCall(f, params, io, db) ==
    IF ToolsCallRejects(params) THEN ToolsCallRaises(f, "none")
    ELSE IF ~ToolFound(tool_method_map, params.name)
    THEN ToolsCallRaises(f, "not found")
    ELSE ToolsCallOf(tool_method_map[params.name],
                     HandlerOf(f, tool_method_map[params.name],
                               ToolArguments(params), io),
                     db)

\* A handler registered without wrapper, called by handle_mcp_request.
DirectEnds(h) ==
    [raised |-> h.raised, result |-> h.result, rows |-> <<>>, file |-> h.file,
     called |-> h.called, store_raised |-> h.store_raised, saved |-> h.saved,
     tool |-> "none"]

\* handle_mcp_request without its except clause: what the handler raises
\* leaves the endpoint, and no response is made.
RespondToUncaught(request, t) ==
    [response |-> IF t.raised
                  THEN [kind |-> "raised", code |-> 0, id |-> request.id,
                        result |-> <<>>]
                  ELSE SuccessResponse(t.result, request.id),
     file |-> t.file, rows |-> t.rows, called |-> t.called,
     store_raised |-> t.store_raised, handler_raised |-> t.raised,
     saved |-> t.saved, tool |-> t.tool]

\* Lines 1580-1594 for a handler that ended as t.
RespondTo(request, t) ==
    [response |-> IF t.raised
                  THEN ErrorResponse(INTERNAL_ERROR, request.id)
                  ELSE SuccessResponse(t.result, request.id),
     file |-> t.file, rows |-> t.rows, called |-> t.called,
     store_raised |-> t.store_raised, handler_raised |-> t.raised,
     saved |-> t.saved, tool |-> t.tool]

\* handle_mcp_request: the response, the file and the audit rows the
\* request leaves, and what happened at each layer below.
HandleMcpRequest(f, request, io, db) ==
    IF request.method \notin METHOD_HANDLERS
    THEN [response |-> ErrorResponse(METHOD_NOT_FOUND, request.id), file |-> f,
          rows |-> <<>>, called |-> FALSE, store_raised |-> FALSE,
          handler_raised |-> FALSE, saved |-> FALSE, tool |-> "none"]
    ELSE IF request.method = "tools/call"
    THEN RespondTo(request, ToolsCall(f, request.params, io, db))
    ELSE IF request.method \in WrappedMethods
    THEN WrappedHandler(request,
                        HandlerOf(f, request.method, request.params, io), db)
    ELSE RespondTo(request,
                   DirectEnds(HandlerOf(f, request.method, request.params, io)))

\* How the save of the request's store operation can end, when the request
\* reaches one.
SaveOutcomesFor(f, method, params) ==
    IF method \notin METHOD_HANDLERS \/ HandlerRejects(method, params)
    THEN {NoSave}
    ELSE SaveOutcomesOf(Apply(StoreOperation(method), LoadGraph(f),
                              ParamData(method, params)))

\* How the handler registered as `method` can end on these params.
HandlerOutcomes(f, method, params) ==
    IF method \in StoreMethods THEN SaveOutcomesFor(f, method, params)
    ELSE IF method \in METHOD_HANDLERS THEN ToolOutcomes(method, params)
    ELSE {NoSave}

\* How the work a request leads to can end.
OutcomesFor(f, method, params) ==
    IF method # "tools/call" THEN HandlerOutcomes(f, method, params)
    ELSE IF ToolsCallRejects(params) \/ ~ToolFound(tool_method_map, params.name)
    THEN {NoSave}
    ELSE HandlerOutcomes(f, tool_method_map[params.name], ToolArguments(params))

\* The ids of requests.
RequestIds == {1, 2}

\* The params clients send to the tools, by method.
ToolParams(method) ==
    CASE method = "memory_create_entities" ->
             {[entities |-> <<[name |-> NameA, entityType |-> TypeB,
                               observations |-> <<ObsX>>]>>],
              [entities |-> <<[name |-> NameAb, entityType |-> TypeT]>>]}
      [] method = "memory_create_relations" ->
             {[relations |-> <<[from |-> NameA, to |-> NameAb,
                                relationType |-> RelKnows]>>]}
      [] method = "memory_add_observations" ->
             {[observations |-> <<[entityName |-> NameAb, contents |-> <<ObsX>>]>>],
              [observations |-> <<>>]}
      [] method = "memory_delete_entities" ->
             {[entityNames |-> <<NameA>>], [entityNames |-> <<NameAb, NameAb>>]}
      [] method = "memory_delete_observations" ->
             {[deletions |-> <<[entityName |-> NameA, observations |-> <<ObsX>>]>>]}
      [] method = "memory_delete_relations" ->
             {[relations |-> <<[from |-> NameA, to |-> NameAb,
                                relationType |-> RelKnows]>>]}
      [] method = "memory_search_nodes" -> {[query |-> <<"a">>], [query |-> <<>>]}
      [] method = "memory_open_nodes" -> {[names |-> <<NameA, NameAb>>]}
      [] OTHER -> {NoParams}

\* The tool names clients put in tools/call: the advertised ones, a
\* registered method that is no tool, and a name nobody registered.
RequestedTools == ToolsList \cup {"tools/list", "memory_forget"}

\* The params of the requests clients send, by method.
RequestParams(method) ==
    IF method # "tools/call" THEN ToolParams(method)
    ELSE {NoParams, [arguments |-> NoParams], [name |-> "memory_read_graph"]}
         \cup UNION {{[name |-> t, arguments |-> a] : a \in ToolParams(t)} :
                        t \in RequestedTools}

\* The methods clients name when they call methods directly: the store
\* methods, registered methods with and without wrapper, and one that is
\* not registered.
RequestMethods ==
    StoreMethods
    \cup {"tools/list", "echo", "calculate", "critical_analysis_stats",
          "memory_forget"}

\* The methods an MCP client names: tools/call for every tool, the store
\* methods directly, and one that is not registered.
ClientMethods == StoreMethods \cup {"tools/call", "memory_forget"}

\* POST /: one request for one of `methods`, from its arrival to its
\* response.
RequestFor(methods) ==
    /\ Idle
    /\ Len(mcp_queries) < MaxQueries
    /\ \E method \in methods, id \in RequestIds, db \in DbOutcomes :
         \E params \in RequestParams(method) :
           \E io \in OutcomesFor(file, method, params) :
             \E r \in {HandleMcpRequest(file, [id |-> id, method |-> method,
                                                params |-> params], io, db)} :
                 /\ file' = r.file
                 /\ mcp_queries' = mcp_queries \o r.rows
                 /\ last' = [op |-> method, args |-> params, id |-> id,
                             before |-> file, io |-> io, db |-> db,
                             called |-> r.called,
                             store_raised |-> r.store_raised,
                             handler_raised |-> r.handler_raised,
                             raised |-> r.response.kind = "error",
                             saved |-> r.saved, rows |-> r.rows,
                             tool |-> r.tool,
                             response |-> r.response, again |-> FALSE]
    /\ UNCHANGED <<tasks, events>>

handle_mcp_request == RequestFor(RequestMethods)

NextServer == handle_mcp_request \/ Return

\* The server answering one request after the other.
SpecServer == Init /\ [][NextServer]_vars

\* handle_mcp_request for the requests of an MCP client.
handle_client_request == RequestFor(ClientMethods)

NextTools == handle_client_request \/ Return

\* The server answering an MCP client, which calls the tools through
\* tools/call.
SpecTools == Init /\ [][NextTools]_vars

\* ------------------------------------------ a save in steps, and a reader

\* File contents a save finds: no file, or a saved graph of one entity and
\* one relation.
FilesBeforeSave ==
    {MissingFile,
     SaveGraph(KnowledgeGraph(<<Entity(NameAb, TypeB, <<ObsX>>)>>,
                              <<Relation(NameAb, NameAb, RelUses)>>))}

\* The process in save_graph, before its open: the file as it finds it, the
\* graph it saves and the lines it has joined; of those, `cut` whole lines
\* have reached the file, followed, when `torn`, by the beginning of the
\* next.
NewSave(f, graph) ==
    [pc |-> "ready", old |-> f, graph |-> graph, lines |-> SaveGraph(graph).lines,
     cut |-> 0, torn |-> FALSE]

\* The web UI's request for the memory data, before it is served.
NewReader ==
    [pc |-> "ready", during |-> "none", seen |-> MissingFile,
     response |-> [status |-> 0, data |-> <<>>]]

\* open(path, "w") writing to a new file that replaces the old one at close.
OpenKeeps == FALSE

\* Line 162: open(path, "w") truncates the file it opens.
OpenTruncates == TRUE

SaveOpen ==
    /\ tasks[1].pc = "ready"
    /\ file' = IF OpenTruncates THEN FileOf(<<>>) ELSE file
    /\ tasks' = [tasks EXCEPT ![1].pc = "opened"]
    /\ UNCHANGED <<last, events, mcp_queries>>

\* Line 163: more of the joined lines reaches the file while the write is
\* under way, the last line still outstanding.
SaveWrite ==
    /\ tasks[1].pc = "opened"
    /\ \E cut \in 0..(Len(tasks[1].lines) - 1), torn \in BOOLEAN :
           /\ \/ cut > tasks[1].cut
              \/ cut = tasks[1].cut /\ torn /\ ~tasks[1].torn
           /\ file' = IF OpenTruncates
                      THEN WrittenPart(tasks[1].lines, [cut |-> cut, torn |-> torn])
                      ELSE file
           /\ tasks' = [tasks EXCEPT ![1].cut = cut, ![1].torn = torn]
    /\ UNCHANGED <<last, events, mcp_queries>>

\* The end of the with block: everything is written and the file closed.
SaveClose ==
    /\ tasks[1].pc = "opened"
    /\ file' = SaveGraph(tasks[1].graph)
    /\ tasks' = [tasks EXCEPT ![1].pc = "closed"]
    /\ UNCHANGED <<last, events, mcp_queries>>

\* The process is killed inside the with block.
Kill ==
    /\ tasks[1].pc = "opened"
    /\ tasks' = [tasks EXCEPT ![1].pc = "killed"]
    /\ UNCHANGED <<file, last, events, mcp_queries>>

\* MemoryAPIHandler.serve_memory_data on file f: 404 without a file, 500
\* when json.loads raises on a line, else the objects of the lines that are
\* not blank.
ServeMemoryData(f) ==
    IF ~f.exists THEN [status |-> 404, data |-> <<>>]
    ELSE IF \E i \in DOMAIN f.lines : f.lines[i].kind = "text"
    THEN [status |-> 500, data |-> <<>>]
    ELSE [status |-> 200,
          data |-> SelectSeq(f.lines, LAMBDA l : l.kind # "blank")]

\* GET /api/memory, served by the web UI's process from the same file.
serve_memory_data ==
    /\ tasks[2].pc = "ready"
    /\ tasks' = [tasks EXCEPT ![2].pc = "done", ![2].during = tasks[1].pc,
                              ![2].seen = file,
                              ![2].response = ServeMemoryData(file)]
    /\ UNCHANGED <<file, last, events, mcp_queries>>

InitSave ==
    /\ file \in FilesBeforeSave
    /\ last = NoCall
    /\ \E graph \in Graphs : tasks = <<NewSave(file, graph), NewReader>>
    /\ events = <<>>
    /\ mcp_queries = <<>>

NextSave == SaveOpen \/ SaveWrite \/ SaveClose \/ Kill \/ serve_memory_data

\* One save_graph, step by step, and one request to the web UI.
SpecSave == InitSave /\ [][NextSave]_vars

\* ================================================================ claims

\* What the file holds, read off its lines by their wire fields.
IsRecordOf(line, type) ==
    /\ line.kind = "object"
    /\ "type" \in DOMAIN line.obj
    /\ line.obj["type"] = type

StoredEntities(f) == SelectSeq(f.lines, LAMBDA l : IsRecordOf(l, "entity"))
StoredRelations(f) == SelectSeq(f.lines, LAMBDA l : IsRecordOf(l, "relation"))

StoredNames(f) == {StoredEntities(f)[i].obj["name"] : i \in DOMAIN StoredEntities(f)}

Triple(line) == <<line.obj["from"], line.obj["to"], line.obj["relationType"]>>

\* The stored line holds the entity (the relation) the operation returned.
HoldsEntity(line, e) ==
    /\ line.obj["name"] = e.name
    /\ line.obj["entityType"] = e.entity_type
    /\ line.obj["observations"] = e.observations

HoldsRelation(line, r) == Triple(line) = <<r.from_entity, r.to_entity, r.relation_type>>

\* `after` is `before` followed by the lines of `added`, in order.
Extends(after, before, added, Holds(_, _)) ==
    /\ Len(after) = Len(before) + Len(added)
    /\ SubSeq(after, 1, Len(before)) = before
    /\ \A i \in DOMAIN added : Holds(after[Len(before) + i], added[i])

\* `lines` are the stored lines of `found`, one for one.
Matches(lines, found, Holds(_, _)) ==
    /\ Len(lines) = Len(found)
    /\ \A i \in DOMAIN found : Holds(lines[i], found[i])

\* C1: whatever store calls were made since the file was empty, no two
\* stored entities have the same name.
C1_UniqueEntityNames ==
    \A i, j \in DOMAIN StoredEntities(file) :
        i # j => StoredEntities(file)[i].obj["name"] # StoredEntities(file)[j].obj["name"]

\* A create_entities call naming a stored entity, and one naming the same new
\* entity twice, have saved; both names are stored.
C1_Witness ==
    /\ last.op = "create_entities"
    /\ last.saved
    /\ \E i \in DOMAIN last.args :
           /\ "name" \in DOMAIN last.args[i]
           /\ \/ last.args[i]["name"] \in StoredNames(last.before)
              \/ \E j \in DOMAIN last.args :
                     j # i /\ "name" \in DOMAIN last.args[j]
                     /\ last.args[j]["name"] = last.args[i]["name"]
    /\ StoredNames(file) = Names

\* C3: an add_observations call with an entry naming an entity that is not
\* stored raises, does not save, and leaves the file as it was.
C3_AddObservationsAborts ==
    (/\ last.op = "add_observations"
     /\ \E i \in DOMAIN last.args :
            last.args[i]["entityName"] \notin StoredNames(last.before))
    => /\ last.raised
       /\ ~last.saved
       /\ file = last.before

\* The batch's first entry names a stored entity and brings a new
\* observation, its second entry names an entity that is not stored.
C3_Witness ==
    /\ last.op = "add_observations"
    /\ Len(last.args) = 2
    /\ last.args[1]["entityName"] \in StoredNames(last.before)
    /\ \E i \in DOMAIN StoredEntities(last.before) :
           /\ StoredEntities(last.before)[i].obj["name"] = last.args[1]["entityName"]
           /\ last.args[1]["contents"][1]
                  \notin Range(StoredEntities(last.before)[i].obj["observations"])
    /\ last.args[2]["entityName"] \notin StoredNames(last.before)
    /\ last.raised

\* C6: create_entities returns exactly the entities it added, and a second
\* call with the same specs returns the empty list and adds nothing: each
\* named entity is stored once.
C6_CreateEntitiesIdempotent ==
    (last.op = "create_entities" /\ ~last.raised)
    => /\ Extends(StoredEntities(file), StoredEntities(last.before), last.result,
                  HoldsEntity)
       /\ \A i \in DOMAIN last.args :
              Cardinality({k \in DOMAIN StoredEntities(file) :
                  StoredEntities(file)[k].obj["name"] = last.args[i]["name"]}) = 1
       /\ last.again => last.result = <<>> /\ file = last.before

\* The second of two calls with the same two specs, the first of which
\* created both entities.
C6_Witness ==
    /\ last.op = "create_entities"
    /\ last.again
    /\ ~last.raised
    /\ Len(last.args) = 2
    /\ last.args[1]["name"] # last.args[2]["name"]
    /\ Len(StoredEntities(file)) = 2

\* C7: no two stored relations have the same (from, to, relationType), and
\* create_relations returns exactly the relations it added.
C7_UniqueRelationTriples ==
    /\ \A i, j \in DOMAIN StoredRelations(file) :
           i # j => Triple(StoredRelations(file)[i]) # Triple(StoredRelations(file)[j])
    /\ (last.op = "create_relations" /\ ~last.raised)
       => Extends(StoredRelations(file), StoredRelations(last.before), last.result,
                  HoldsRelation)

\* A create_relations call for a stored triple and a new one that differs
\* from it in the relation type only: one relation came back, two are stored.
C7_Witness ==
    /\ last.op = "create_relations"
    /\ Len(last.args) = 2
    /\ \E i \in DOMAIN StoredRelations(last.before) :
           Triple(StoredRelations(last.before)[i])
               = <<last.args[1]["from"], last.args[1]["to"], last.args[1]["relationType"]>>
    /\ Len(last.result) = 1
    /\ Len(StoredRelations(file)) = 2

\* C8: after delete_entities(names) no stored entity is named in names and no
\* stored relation starts or ends at a name in names; the other entities and
\* relations are stored as they were.
C8_DeleteEntitiesCascades ==
    last.op = "delete_entities"
    => /\ ~last.raised
       /\ StoredEntities(file)
              = SelectSeq(StoredEntities(last.before),
                          LAMBDA l : l.obj["name"] \notin Range(last.args))
       /\ StoredRelations(file)
              = SelectSeq(StoredRelations(last.before),
                          LAMBDA l : /\ l.obj["from"] \notin Range(last.args)
                                     /\ l.obj["to"] \notin Range(last.args))

\* Deleting the entity a stored relation ends at removed that relation, and
\* the other entity is still stored.
C8_Witness ==
    /\ last.op = "delete_entities"
    /\ last.args = <<NameAb>>
    /\ StoredNames(last.before) = Names
    /\ Len(StoredRelations(last.before)) = 2
    /\ StoredNames(file) = {NameA}
    /\ StoredRelations(file) = <<>>

\* Two characters are the same letter, whatever their case.
SameLetter(c, d) ==
    \/ c = d
    \/ {c, d} \in {{"a", "A"}, {"b", "B"}}

\* `sub` occurs in `s`, case ignored.
OccursIgnoringCase(sub, s) ==
    \E i \in 0..(Len(s) - Len(sub)) :
        \A k \in 1..Len(sub) : SameLetter(sub[k], s[i + k])

QueryHits(line, query) ==
    \/ OccursIgnoringCase(query, line.obj["name"])
    \/ OccursIgnoringCase(query, line.obj["entityType"])
    \/ \E k \in DOMAIN line.obj["observations"] :
           OccursIgnoringCase(query, line.obj["observations"][k])

ResultNames(g) == {g.entities[i].name : i \in DOMAIN g.entities}

\* C9: search_nodes returns exactly the stored entities whose name, type or
\* one observation contains the query, case ignored, and exactly the stored
\* relations whose two endpoints are names of returned entities.
C9_SearchNodesExact ==
    last.op = "search_nodes"
    => /\ ~last.raised
       /\ Matches(SelectSeq(StoredEntities(last.before),
                            LAMBDA l : QueryHits(l, last.args)),
                  last.result.entities, HoldsEntity)
       /\ Matches(SelectSeq(StoredRelations(last.before),
                            LAMBDA l : /\ l.obj["from"] \in ResultNames(last.result)
                                       /\ l.obj["to"] \in ResultNames(last.result)),
                  last.result.relations, HoldsRelation)

\* An upper-case query found the entity named in lower case, not the other,
\* and the relation between the two was not returned.
C9_Witness ==
    /\ last.op = "search_nodes"
    /\ last.args = <<"B", "a">>
    /\ StoredNames(last.before) = Names
    /\ ResultNames(last.result) = {NameAb}
    /\ StoredRelations(last.before) # <<>>
    /\ last.result.relations = <<>>

\* C10: open_nodes returns exactly the stored entities named in the list and
\* exactly the stored relations whose two endpoints are names of returned
\* entities; a requested name that is not stored raises nothing and adds
\* nothing.
C10_OpenNodesExact ==
    last.op = "open_nodes"
    => /\ ~last.raised
       /\ Matches(SelectSeq(StoredEntities(last.before),
                            LAMBDA l : l.obj["name"] \in Range(last.args)),
                  last.result.entities, HoldsEntity)
       /\ Matches(SelectSeq(StoredRelations(last.before),
                            LAMBDA l : /\ l.obj["from"] \in ResultNames(last.result)
                                       /\ l.obj["to"] \in ResultNames(last.result)),
                  last.result.relations, HoldsRelation)

\* Both ends of a stored relation were requested, one of them was never
\* created: its other end came back without the relation.
C10_Witness ==
    /\ last.op = "open_nodes"
    /\ Range(last.args) = Names
    /\ StoredNames(last.before) = {NameA}
    /\ StoredRelations(last.before) # <<>>
    /\ ResultNames(last.result) = {NameA}
    /\ last.result.relations = <<>>

\* The place of an event in the order of file accesses, 0 when it did not happen.
Place(kind, t) ==
    IF \E i \in DOMAIN events : events[i] = <<kind, t>>
    THEN CHOOSE i \in DOMAIN events : events[i] = <<kind, t>>
    ELSE 0

\* Both calls have returned and saved, u loaded between t's load and t's
\* save, and u saved last.
LostUpdateOrder(t, u) ==
    /\ tasks[t].pc = "done" /\ tasks[u].pc = "done"
    /\ tasks[t].saved /\ tasks[u].saved
    /\ Place("load", t) < Place("load", u)
    /\ Place("load", u) < Place("save", t)
    /\ Place("save", t) < Place("save", u)

\* C2 as stated: whichever two calls are in flight, once one has loaded and
\* not yet saved, the load of the other can happen.
C2_AnyTwoCallsInterleave ==
    \A t, u \in DOMAIN tasks :
        (t # u /\ tasks[t].pc = "loaded" /\ tasks[u].pc = "ready")
        => ENABLED TaskLoad(u)

\* C2, amended: two calls interleave only when they run on different event
\* loops (two processes on one file); then the file ends as the call that
\* saved last made it from what it had loaded, without the other call's
\* update, although both calls returned normally.
C2_LostUpdateAcrossLoops ==
    \A t, u \in DOMAIN tasks :
        LostUpdateOrder(t, u)
        => /\ tasks[t].loop # tasks[u].loop
           /\ ~tasks[t].raised /\ ~tasks[u].raised
           /\ tasks[u].seen = tasks[t].seen
           /\ file = SaveGraph(Apply(tasks[u].op, LoadGraph(tasks[t].seen),
                                     tasks[u].args).graph)
           /\ (/\ tasks[t].op = "create_entities"
               /\ tasks[u].op = "create_entities"
               /\ tasks[t].args[1]["name"] # tasks[u].args[1]["name"]
               /\ tasks[t].args[1]["name"] \notin StoredNames(tasks[t].seen))
              => /\ Len(tasks[t].result) = 1
                 /\ tasks[t].args[1]["name"] \notin StoredNames(file)

\* Two create_entities calls with different names on an empty file: both
\* returned their entity as created, one entity is stored.
C2_Witness ==
    /\ DOMAIN tasks = {1, 2}
    /\ LostUpdateOrder(1, 2)
    /\ tasks[1].op = "create_entities" /\ tasks[2].op = "create_entities"
    /\ tasks[1].seen = FileOf(<<>>)
    /\ Len(tasks[1].result) = 1 /\ Len(tasks[2].result) = 1
    /\ tasks[1].result # tasks[2].result
    /\ Len(StoredEntities(file)) = 1

\* A record line with every field its type requires; "observations" is not
\* required, from_dict defaults it to the empty list.
WellFormed(line) ==
    \/ IsRecordOf(line, "entity") /\ {"name", "entityType"} \subseteq DOMAIN line.obj
    \/ IsRecordOf(line, "relation")
       /\ {"from", "to", "relationType"} \subseteq DOMAIN line.obj

\* An entity or relation record without one of its required fields.
LacksField(line) ==
    (IsRecordOf(line, "entity") \/ IsRecordOf(line, "relation")) /\ ~WellFormed(line)

\* The loaded graph holds every well-formed record of the file, in file order.
LoadedAllWellFormed(f, graph) ==
    /\ Matches(SelectSeq(f.lines, LAMBDA l : IsRecordOf(l, "entity") /\ WellFormed(l)),
               graph.entities,
               LAMBDA l, e : /\ l.obj["name"] = e.name
                             /\ l.obj["entityType"] = e.entity_type)
    /\ Matches(SelectSeq(f.lines, LAMBDA l : IsRecordOf(l, "relation") /\ WellFormed(l)),
               graph.relations, HoldsRelation)

\* C4: when the file holds a record without a required field, the load of a
\* store call skips that line and still returns every well-formed record.
C4_FieldlessRecordSkipped ==
    (/\ last.op # "none"
     /\ \E i \in DOMAIN last.before.lines : LacksField(last.before.lines[i]))
    => LoadedAllWellFormed(last.before, last.loaded)

\* C5: the load of a store call returns the empty graph for a missing or
\* empty file, and when the file holds lines that are not JSON it skips them
\* and returns every well-formed record of the other lines.
C5_UnparseableLinesSkipped ==
    last.op # "none"
    => /\ (~last.before.exists \/ last.before.lines = <<>>) => last.loaded = EmptyGraph
       /\ (\E i \in DOMAIN last.before.lines : last.before.lines[i].kind = "text")
          => LoadedAllWellFormed(last.before, last.loaded)

\* The wire triple of a relation spec.
SpecTriple(d) == <<d["from"], d["to"], d["relationType"]>>

StoredTriples(f) == {Triple(StoredRelations(f)[i]) : i \in DOMAIN StoredRelations(f)}

\* C11: create_relations makes no referential check: every relation of the
\* batch is stored afterwards, whether or not its endpoints are names of
\* stored entities, and is returned when it was not stored before and not
\* listed earlier in the batch; read_graph returns every stored relation,
\* dangling ones included.
C11_NoReferentialCheck ==
    /\ (last.op = "create_relations" /\ ~last.raised)
       => \A i \in DOMAIN last.args :
              /\ SpecTriple(last.args[i]) \in StoredTriples(file)
              /\ (/\ SpecTriple(last.args[i]) \notin StoredTriples(last.before)
                  /\ \A j \in 1..(i - 1) : SpecTriple(last.args[j]) # SpecTriple(last.args[i]))
                 => \E k \in DOMAIN last.result :
                        RelationKey(last.result[k]) = SpecTriple(last.args[i])
    /\ last.op = "read_graph"
       => Matches(StoredRelations(last.before), last.result.relations, HoldsRelation)

\* read_graph shows one entity and one relation, whose far end was never
\* created.
C11_Witness ==
    /\ last.op = "read_graph"
    /\ Len(last.result.entities) = 1
    /\ Len(last.result.relations) = 1
    /\ last.result.relations[1].from_entity \in ResultNames(last.result)
    /\ last.result.relations[1].to_entity \notin ResultNames(last.result)

\* The observation list of the stored entity of that name, empty when there
\* is none.
ObservationsOf(f, name) ==
    IF name \in StoredNames(f)
    THEN (CHOOSE l \in Range(StoredEntities(f)) : l.obj["name"] = name).obj["observations"]
    ELSE <<>>

\* The strings the entity of entry k holds when the call reaches that entry:
\* those stored before the call and those of the earlier entries for the
\* same entity.
PresentAt(args, before, k) ==
    Range(ObservationsOf(before, args[k]["entityName"]))
    \cup UNION {Range(args[j]["contents"]) :
                   j \in {j \in 1..(k - 1) : args[j]["entityName"] = args[k]["entityName"]}}

\* The strings of entry k that are not yet present, in input order.
NotYetPresent(args, before, k) ==
    SelectSeq(args[k]["contents"], LAMBDA c : c \notin PresentAt(args, before, k))

RECURSIVE AppendedTo(_, _, _, _)
\* What the first k entries append to the entity of that name.
AppendedTo(args, before, name, k) ==
    IF k = 0 THEN <<>>
    ELSE AppendedTo(args, before, name, k - 1)
         \o (IF args[k]["entityName"] = name THEN NotYetPresent(args, before, k) ELSE <<>>)

\* C12: add_observations appends to each named entity exactly the content
\* strings that are not yet in its observation list, in input order, and
\* lists exactly those in addedObservations of that entry; a string that is
\* already present is neither appended nor listed.
C12_AddObservationsDedup ==
    (last.op = "add_observations" /\ ~last.raised)
    => /\ Len(last.result) = Len(last.args)
       /\ \A k \in DOMAIN last.args :
              /\ last.result[k]["entityName"] = last.args[k]["entityName"]
              /\ last.result[k]["addedObservations"]
                     = NotYetPresent(last.args, last.before, k)
       /\ Len(StoredEntities(file)) = Len(StoredEntities(last.before))
       /\ \A i \in DOMAIN StoredEntities(last.before) :
              LET was == StoredEntities(last.before)[i].obj
                  is == StoredEntities(file)[i].obj
              IN  /\ is["name"] = was["name"]
                  /\ is["entityType"] = was["entityType"]
                  /\ is["observations"]
                         = was["observations"]
                           \o AppendedTo(last.args, last.before, was["name"], Len(last.args))

\* An entry with a new string followed by a string the entity already holds:
\* only the new string was added.
C12_Witness ==
    /\ last.op = "add_observations"
    /\ ~last.raised
    /\ last.args # <<>>
    /\ last.args[1]["contents"] = <<ObsBa, ObsX>>
    /\ ObsX \in Range(ObservationsOf(last.before, last.args[1]["entityName"]))
    /\ ObsBa \notin Range(ObservationsOf(last.before, last.args[1]["entityName"]))
    /\ last.result[1]["addedObservations"] = <<ObsBa>>
    /\ ObservationsOf(file, last.args[1]["entityName"]) = <<ObsX, ObsBa>>

\* The stored entities and relations are those of the file before the call.
StoredUnchanged ==
    /\ StoredEntities(file) = StoredEntities(last.before)
    /\ StoredRelations(file) = StoredRelations(last.before)

\* The names stored relations start or end at.
StoredEndpoints(f) ==
    {StoredRelations(f)[i].obj["from"] : i \in DOMAIN StoredRelations(f)}
    \cup {StoredRelations(f)[i].obj["to"] : i \in DOMAIN StoredRelations(f)}

\* delete_relations with no stored triple, and delete_observations naming
\* no stored entity, raise nothing and leave the stored graph as it was.
OtherDeletesOfAbsent ==
    /\ (/\ last.op = "delete_relations"
        /\ \A i \in DOMAIN last.args :
               SpecTriple(last.args[i]) \notin StoredTriples(last.before))
       => ~last.raised /\ StoredUnchanged
    /\ (/\ last.op = "delete_observations"
        /\ \A i \in DOMAIN last.args :
               last.args[i]["entityName"] \notin StoredNames(last.before))
       => ~last.raised /\ StoredUnchanged

\* C14 as stated: delete_entities with names of which none is a stored entity
\* leaves the stored graph as it was, and so do the other two deletes.
C14_DeleteOfAbsentChangesNothing ==
    /\ (/\ last.op = "delete_entities"
        /\ Range(last.args) \cap StoredNames(last.before) = {})
       => ~last.raised /\ StoredUnchanged
    /\ OtherDeletesOfAbsent

\* C14, amended: delete_entities with names of which none is a stored entity
\* or an endpoint of a stored relation raises nothing and leaves the stored
\* graph as it was, and so do delete_relations with triples that are not
\* stored and delete_observations naming entities that are not stored.
C14_DeleteOfUnreferencedChangesNothing ==
    /\ (/\ last.op = "delete_entities"
        /\ Range(last.args) \cap StoredNames(last.before) = {}
        /\ Range(last.args) \cap StoredEndpoints(last.before) = {})
       => ~last.raised /\ StoredUnchanged
    /\ OtherDeletesOfAbsent

\* delete_observations named only an entity that is not stored, while
\* another entity with observations is: nothing was raised, nothing changed.
C14_Witness ==
    /\ last.op = "delete_observations"
    /\ last.args # <<>>
    /\ \A i \in DOMAIN last.args :
           last.args[i]["entityName"] \notin StoredNames(last.before)
    /\ \E i \in DOMAIN StoredEntities(last.before) :
           StoredEntities(last.before)[i].obj["observations"] # <<>>
    /\ ~last.raised
    /\ last.saved
    /\ StoredUnchanged

\* C15: read_graph, search_nodes and open_nodes do not save: the file after
\* the call is the file before it; read_graph returns every stored entity
\* and every stored relation, in file order.
C15_ReadsDoNotWrite ==
    last.op \in {"read_graph", "search_nodes", "open_nodes"}
    => /\ ~last.raised
       /\ ~last.saved
       /\ file = last.before
       /\ last.op = "read_graph"
          => /\ Matches(StoredEntities(last.before), last.result.entities, HoldsEntity)
             /\ Matches(StoredRelations(last.before), last.result.relations,
                        HoldsRelation)

\* read_graph on a file that does not exist yet returned the empty graph
\* and did not create the file.
C15_Witness ==
    /\ last.op = "read_graph"
    /\ ~last.before.exists
    /\ ~file.exists
    /\ last.result = EmptyGraph

\* C13: the graph load_graph returns after save_graph(graph) is that graph:
\* the same entities with name, type and observations in order, the same
\* relations, in the same order.
C13_SaveLoadRoundTrip ==
    last.op = "load_graph" => last.result = last.args

\* The graph saved and loaded back holds an entity without observations and
\* a relation that ends at no entity of the graph, over a file that held
\* another graph.
C13_Witness ==
    /\ last.op = "load_graph"
    /\ last.before.lines # <<>>
    /\ \E i \in DOMAIN last.args.entities : last.args.entities[i].observations = <<>>
    /\ \E i \in DOMAIN last.args.relations :
           last.args.relations[i].to_entity \notin ResultNames(last.args)
    /\ last.result = last.args

\* The number of entities the call removed from the file.
EntitiesRemoved == Len(StoredEntities(last.before)) - Len(StoredEntities(file))

\* C16: the number of deleted entities that a successful
\* memory_delete_entities request reports is the number of entities the
\* call removed from the file.
C16_ReportsEntitiesRemoved ==
    (last.op = "memory_delete_entities" /\ last.response.kind = "result")
    => last.response.result["deleted_count"] = EntitiesRemoved

\* The request is the one the server answered last.
LastRequest == [id |-> last.id, method |-> last.op, params |-> last.args]

\* The row the wrapper hands to the audit logger for the last request.
AuditRow(success) == [tool_name |-> last.op, success |-> success]

\* C17: a memory_add_observations request with an entry naming an entity
\* that is not stored fails at every layer: the store operation raises and
\* saves nothing, the wrapped handler raises, the response is an error
\* response with the id of the request, and the row written to the audit
\* table says success = false.
C17_NotFoundFailsAtEveryLayer ==
    (/\ last.op = "memory_add_observations"
     /\ last.called
     /\ \E i \in DOMAIN last.args["observations"] :
            last.args["observations"][i]["entityName"] \notin StoredNames(last.before))
    => /\ last.store_raised
       /\ last.handler_raised
       /\ ~last.saved
       /\ file = last.before
       /\ last.response.kind = "error"
       /\ last.response.id = last.id
       /\ last.db = "ok"
          => /\ last.rows = <<AuditRow(FALSE)>>
             /\ mcp_queries # <<>>
             /\ mcp_queries[Len(mcp_queries)] = AuditRow(FALSE)

\* Observations for an entity that is not stored, while another entity is,
\* and the audit table takes the row: an error response with the id of the
\* request, the row in the table, the file as it was.
C17_Witness ==
    /\ last.op = "memory_add_observations"
    /\ last.called
    /\ last.args["observations"][1]["entityName"] \notin StoredNames(last.before)
    /\ StoredNames(last.before) # {}
    /\ last.db = "ok"
    /\ last.id = 2
    /\ last.response = ErrorResponse(INTERNAL_ERROR, 2)
    /\ mcp_queries[Len(mcp_queries)] = AuditRow(FALSE)
    /\ file = last.before

MutatingMethods ==
    {"memory_create_entities", "memory_create_relations", "memory_add_observations",
     "memory_delete_entities", "memory_delete_observations",
     "memory_delete_relations"}

\* C18: when the write of the file fails in a mutating request, the store
\* operation raises and the request is answered with an error response; a
\* mutating request answered with a success response has saved its graph.
C18_SaveFailurePropagates ==
    (last.op \in MutatingMethods /\ last.called)
    => /\ last.io.kind \in {"open", "write"}
          => /\ last.store_raised
             /\ last.handler_raised
             /\ last.response.kind = "error"
       /\ last.response.kind = "result"
          => /\ last.saved
             /\ last.io.kind = "ok"
             /\ \A out \in {Apply(StoreOperation(last.op), LoadGraph(last.before),
                                  ParamData(last.op, last.args))} :
                    file = SaveGraph(out.graph)

\* The write of a create_entities request failed after the file was
\* truncated: the request was answered with an error and the entity that
\* was stored before is lost.
C18_Witness ==
    /\ last.op = "memory_create_entities"
    /\ last.io.kind = "write"
    /\ last.response.kind = "error"
    /\ StoredEntities(last.before) # <<>>
    /\ StoredEntities(file) = <<>>

\* C20: the response to a request and the file it leaves are the same
\* whether the insert into the audit table succeeds, fails or raises.
C20_AuditIsSideChannel ==
    last.op \in METHOD_HANDLERS
    => \A db \in DbOutcomes :
           \A r \in {HandleMcpRequest(last.before, LastRequest, last.io, db)} :
               /\ r.response = last.response
               /\ r.file = file

\* The audit logger raised while a create_entities request was answered
\* with its success response and its entity was stored; no row was written.
C20_Witness ==
    /\ last.op = "memory_create_entities"
    /\ last.db = "raises"
    /\ last.rows = <<>>
    /\ last.response.kind = "result"
    /\ last.response.result["count"] = 1
    /\ last.saved
    /\ Len(StoredEntities(file)) = Len(StoredEntities(last.before)) + 1

\* File f holds a beginning of `lines` that stops short of their end: some
\* whole lines, then nothing or the beginning of the next line.
IsUnfinished(f, lines) ==
    /\ f.exists
    /\ \/ f.lines = <<>>
       \/ \E cut \in 0..(Len(lines) - 1), torn \in BOOLEAN :
              f = WrittenPart(lines, [cut |-> cut, torn |-> torn])

\* C19: save_graph truncates the file and then writes: from its open until
\* its close, and for good when the process is killed in between, the file
\* holds an unfinished beginning of the new lines, and that is what a
\* request to the web UI served in the meantime reads.
C19_SaveTruncatesThenWrites ==
    /\ tasks[1].pc \in {"opened", "killed"}
       => IsUnfinished(file, tasks[1].lines)
    /\ (tasks[2].pc = "done" /\ tasks[2].during \in {"opened", "killed"})
       => /\ IsUnfinished(tasks[2].seen, tasks[1].lines)
          /\ tasks[2].response = ServeMemoryData(tasks[2].seen)
          /\ tasks[2].response.status \in {200, 500}

\* The process was killed in a save of two entities over a file that held
\* another entity and a relation: the file holds the first new entity only,
\* neither the old graph nor the new, and the web UI, asked while the save
\* was under way, has served just that.
C19_Witness ==
    /\ tasks[1].pc = "killed"
    /\ tasks[1].old.lines # <<>>
    /\ Len(tasks[1].graph.entities) = 2
    /\ tasks[1].graph.entities[1].name # tasks[1].graph.entities[2].name
    /\ LoadGraph(file) # tasks[1].graph
    /\ LoadGraph(file) # LoadGraph(tasks[1].old)
    /\ LoadGraph(file) = KnowledgeGraph(<<tasks[1].graph.entities[1]>>, <<>>)
    /\ tasks[2].pc = "done"
    /\ tasks[2].during = "opened"
    /\ tasks[2].seen = file
    /\ tasks[2].response.status = 200
    /\ Len(tasks[2].response.data) = 1

\* ------------------------------------------------------------------ C21

\* The method and the params of the handler a request leads to: the
\* request's own, or those named inside a tools/call.
ReachedMethod ==
    IF last.op = "tools/call" THEN last.args.name ELSE last.op

ReachedParams ==
    IF last.op = "tools/call" THEN ToolArguments(last.args) ELSE last.args

\* The request names a method, directly or as the tool of a tools/call.
NamesMethod ==
    /\ last.op # "none"
    /\ last.op = "tools/call" => ~ToolsCallRejects(last.args)

\* C21: the nine store methods are registered and advertised; a request
\* that names one of them, directly or inside tools/call, with params its
\* handler accepts, runs the store operation, and the file is what that
\* operation leaves; a tools/call naming any advertised tool finds a
\* registered handler and never ends in "Tool not found".
C21_ToolsReachHandlers ==
    /\ StoreMethods \subseteq METHOD_HANDLERS
    /\ StoreMethods \subseteq ToolsList
    /\ "tools/call" \in METHOD_HANDLERS
    /\ NamesMethod =>
         /\ (last.op = "tools/call" /\ ReachedMethod \in ToolsList)
                => last.tool = "found"
         /\ (ReachedMethod \in StoreMethods
               /\ ~HandlerRejects(ReachedMethod, ReachedParams))
                => /\ last.called
                   /\ \A c \in {StoreCall(last.before, StoreOperation(ReachedMethod),
                                           ParamData(ReachedMethod, ReachedParams),
                                           last.io)} :
                         /\ file = c.file
                         /\ last.raised = c.raised

\* A tools/call for memory_create_entities that created an entity and was
\* answered with a result.
C21_Witness ==
    /\ last.op = "tools/call"
    /\ ~ToolsCallRejects(last.args)
    /\ last.args.name = "memory_create_entities"
    /\ last.tool = "found"
    /\ last.called
    /\ last.saved
    /\ file # last.before
    /\ NameAb \in StoredNames(file)
    /\ last.response.kind = "result"
    /\ last.response.result.isError = FALSE

\* ------------------------------------------------------------------ C22

\* Spec i of the batch is the first spec of the batch with its name, and
\* that name was not stored before the call.
FirstWithNewName(args, before, i) ==
    /\ args[i]["name"] \notin StoredNames(before)
    /\ \A j \in 1..(i - 1) : args[j]["name"] # args[i]["name"]

\* The positions of the batch that create an entity, in batch order.
CreatingPositions(args, before) ==
    SelectSeq([i \in 1..Len(args) |-> i],
              LAMBDA i : FirstWithNewName(args, before, i))

\* The entity a spec describes: observations default to the empty list.
IsEntityOfSpec(e, d) ==
    /\ e.name = d["name"]
    /\ e.entity_type = d["entityType"]
    /\ e.observations = IF "observations" \in DOMAIN d THEN d["observations"] ELSE <<>>

\* C22: create_entities creates and returns, in batch order, exactly the
\* specs that are the first of the batch with a name not yet stored; the
\* other specs of the batch are skipped without stopping them, and each
\* returned entity is stored with the fields of its own spec.
C22_CreateEntitiesPerSpec ==
    (last.op = "create_entities" /\ ~last.raised)
    => \A pos \in {CreatingPositions(last.args, last.before)} :
          /\ Len(last.result) = Len(pos)
          /\ \A k \in DOMAIN pos :
                 /\ IsEntityOfSpec(last.result[k], last.args[pos[k]])
                 /\ \E n \in DOMAIN StoredEntities(file) :
                        HoldsEntity(StoredEntities(file)[n], last.result[k])
          /\ Len(StoredEntities(file)) = Len(StoredEntities(last.before)) + Len(pos)

\* A batch of two specs: the first names a stored entity and is skipped, the
\* second is new, created and returned.
C22_Witness ==
    /\ last.op = "create_entities"
    /\ ~last.raised
    /\ ~last.again
    /\ Len(last.args) = 2
    /\ last.args[1]["name"] \in StoredNames(last.before)
    /\ last.args[2]["name"] \notin StoredNames(last.before)
    /\ Len(last.result) = 1
    /\ last.result[1].name = last.args[2]["name"]
    /\ last.args[2]["name"] \in StoredNames(file)

\* ------------------------------------------------------------------ C23

\* No string occurs twice in the sequence.
NoRepeatedString(observations) ==
    \A i, j \in DOMAIN observations :
        i # j => observations[i] # observations[j]

\* C23: after an add_observations that did not raise, every stored entity
\* whose observation list held no repeated string before the call holds no
\* repeated string.
C23_NoRepeatedObservation ==
    (last.op = "add_observations" /\ ~last.raised)
    => \A name \in StoredNames(file) :
           NoRepeatedString(ObservationsOf(last.before, name))
           => NoRepeatedString(ObservationsOf(file, name))

\* ------------------------------------------------------------------ C24

\* C24: a mutating call that has returned has made exactly two file
\* accesses, its load and then its save, whatever its batch and whether or
\* not it changed anything; a call that has raised (add_observations on an
\* absent entity) has made its load and no save, and the file is as it was
\* loaded.
C24_OneLoadThenOneSave ==
    \A t \in DOMAIN tasks :
        tasks[t].pc = "done"
        => IF tasks[t].raised
           THEN /\ events = <<<<"load", t>>>>
                /\ ~tasks[t].saved
                /\ file = tasks[t].seen
           ELSE /\ events = <<<<"load", t>>, <<"save", t>>>>
                /\ tasks[t].saved

\* A delete_entities of two names none of which is stored or an endpoint:
\* the call has loaded, then saved, and the stored lines are as before.
C24_Witness ==
    /\ Len(tasks) = 1
    /\ tasks[1].pc = "done"
    /\ tasks[1].op = "delete_entities"
    /\ Len(tasks[1].args) = 2
    /\ ~tasks[1].raised
    /\ tasks[1].seen.exists
    /\ tasks[1].seen.lines # <<>>
    /\ file = tasks[1].seen
    /\ events = <<<<"load", 1>>, <<"save", 1>>>>

\* ------------------------------------------------------------------ C25

\* The strings the entries of the batch list for the entity of that name.
ListedFor(args, name) ==
    UNION {Range(args[k]["observations"]) :
              k \in {k \in DOMAIN args : args[k]["entityName"] = name}}

\* C25: delete_observations does not raise; it leaves every stored entity in
\* its place with its name and type, with its observations less every
\* occurrence of the strings the batch lists for its name, the others in
\* their order; an entry for a name that is not stored changes nothing and
\* does not stop the entries after it; the relations are stored as before.
C25_DeleteObservationsExact ==
    last.op = "delete_observations"
    => /\ ~last.raised
       /\ StoredRelations(file) = StoredRelations(last.before)
       /\ Len(StoredEntities(file)) = Len(StoredEntities(last.before))
       /\ \A i \in DOMAIN StoredEntities(last.before) :
              \A was \in {StoredEntities(last.before)[i].obj} :
                 \A is \in {StoredEntities(file)[i].obj} :
                    /\ is["name"] = was["name"]
                    /\ is["entityType"] = was["entityType"]
                    /\ is["observations"]
                           = SelectSeq(was["observations"],
                                       LAMBDA o : o \notin ListedFor(last.args, was["name"]))

\* A batch whose first entry names an entity that is not stored and whose
\* second entry lists one of the two observations of a stored entity: that
\* observation is gone, the other is kept.
C25_Witness ==
    /\ last.op = "delete_observations"
    /\ ~last.raised
    /\ Len(last.args) = 2
    /\ last.args[1]["entityName"] \notin StoredNames(last.before)
    /\ last.args[2] = [entityName |-> NameA, observations |-> <<ObsX>>]
    /\ ObservationsOf(last.before, NameA) = <<ObsX, ObsBa>>
    /\ ObservationsOf(file, NameA) = <<ObsBa>>

\* ------------------------------------------------------------------ C26

\* The triples the batch lists.
ListedTriples(args) == {SpecTriple(args[i]) : i \in DOMAIN args}

\* C26: delete_relations leaves the stored entities as they were and the
\* stored relations less those whose (from, to, relationType) is a listed
\* triple, the others in their order: a relation that differs from every
\* listed triple in at least one field stays.
C26_DeleteRelationsExact ==
    (last.op = "delete_relations" /\ ~last.raised)
    => /\ StoredEntities(file) = StoredEntities(last.before)
       /\ StoredRelations(file)
              = SelectSeq(StoredRelations(last.before),
                          LAMBDA l : Triple(l) \notin ListedTriples(last.args))

\* Two relations A -> ab are stored, of types k and u; the batch lists
\* A -> A of type u, which differs from the second in `to` only, and
\* A -> ab of type k: the first relation is gone, the second is stored.
C26_Witness ==
    /\ last.op = "delete_relations"
    /\ ~last.raised
    /\ last.args = <<[from |-> NameA, to |-> NameA, relationType |-> RelUses],
                     [from |-> NameA, to |-> NameAb, relationType |-> RelKnows]>>
    /\ StoredTriples(last.before) = {<<NameA, NameAb, RelKnows>>, <<NameA, NameAb, RelUses>>}
    /\ StoredTriples(file) = {<<NameA, NameAb, RelUses>>}
    /\ StoredEntities(last.before) # <<>>

\* ------------------------------------------------------------------ C27

\* The six operations that save.
MutatingOperations ==
    {"create_entities", "create_relations", "add_observations",
     "delete_entities", "delete_observations", "delete_relations"}

\* The call was asked to change or remove the entity of this line.
TargetsEntity(line) ==
    CASE last.op = "delete_entities" -> line.obj["name"] \in Range(last.args)
      [] last.op \in {"add_observations", "delete_observations"} ->
             \E k \in DOMAIN last.args : last.args[k]["entityName"] = line.obj["name"]
      [] OTHER -> FALSE

\* The call was asked to remove the relation of this line.
TargetsRelation(line) ==
    CASE last.op = "delete_entities" ->
             line.obj["from"] \in Range(last.args) \/ line.obj["to"] \in Range(last.args)
      [] last.op = "delete_relations" ->
             \E k \in DOMAIN last.args :
                 /\ {"from", "to", "relationType"} \subseteq DOMAIN last.args[k]
                 /\ Triple(line) = SpecTriple(last.args[k])
      [] OTHER -> FALSE

\* C27: whatever lines the file held before a mutating call, every
\* well-formed entity record and every well-formed relation record of the
\* file that the call did not target is a line of the file after the call.
C27_UntargetedRecordsKept ==
    last.op \in MutatingOperations
    => \A i \in DOMAIN last.before.lines :
          \A l \in {last.before.lines[i]} :
             /\ (IsRecordOf(l, "entity") /\ WellFormed(l) /\ ~TargetsEntity(l))
                    => \E j \in DOMAIN file.lines : file.lines[j] = l
             /\ (IsRecordOf(l, "relation") /\ WellFormed(l) /\ ~TargetsRelation(l))
                    => \E j \in DOMAIN file.lines : file.lines[j] = l

\* ------------------------------------------------------------------ C28

\* The file a call leaves when it runs alone on the file it loaded.
FileAfter(t) ==
    IF \A out \in {Apply(tasks[t].op, LoadGraph(tasks[t].seen), tasks[t].args)} :
           out.mutates /\ ~out.raised
    THEN SaveGraph(Apply(tasks[t].op, LoadGraph(tasks[t].seen), tasks[t].args).graph)
    ELSE tasks[t].seen

\* The two calls ran one after the other: t loaded first, u loaded the file
\* t left, and the file is as u left it.
RanInOrder(t, u) ==
    /\ Place("load", t) = 1
    /\ Place("load", t) < Place("load", u)
    /\ tasks[t].saved => Place("save", t) = Place("load", t) + 1
    /\ tasks[u].saved => Place("save", u) = Place("load", u) + 1
    /\ tasks[u].seen = FileAfter(t)
    /\ file = FileAfter(u)

\* C28: two calls on the same event loop are never both between their load
\* and their save; once both have ended, they have run in one of the two
\* sequential orders, and two create_entities calls for different names
\* have both left their entity in the file.
C28_SameLoopCallsAreSerial ==
    \A t, u \in DOMAIN tasks :
        (t # u /\ tasks[t].loop = tasks[u].loop)
        => /\ ~(tasks[t].pc = "loaded" /\ tasks[u].pc = "loaded")
           /\ (tasks[t].pc = "done" /\ tasks[u].pc = "done")
              => /\ RanInOrder(t, u) \/ RanInOrder(u, t)
                 /\ (/\ tasks[t].op = "create_entities"
                     /\ tasks[u].op = "create_entities")
                    => {tasks[t].args[1]["name"], tasks[u].args[1]["name"]}
                           \subseteq StoredNames(file)

\* Two create_entities calls for different names on the same event loop,
\* on a file that held neither: both returned their entity, both are stored.
C28_Witness ==
    /\ DOMAIN tasks = {1, 2}
    /\ tasks[1].loop = tasks[2].loop
    /\ tasks[1].pc = "done" /\ tasks[2].pc = "done"
    /\ tasks[1].op = "create_entities" /\ tasks[2].op = "create_entities"
    /\ tasks[1].args[1]["name"] # tasks[2].args[1]["name"]
    /\ Len(tasks[1].result) = 1 /\ Len(tasks[2].result) = 1
    /\ Place("load", 2) = 1
    /\ tasks[1].seen = FileAfter(2)
    /\ StoredNames(file) = Names

\* ------------------------------------------------------------------ C29

\* What was raised inside the registered handler, told from the layers
\* below it: the handler rejected its params, the store operation or its
\* save raised, or tools/call found its params or its tool wanting.
RaisedBelow ==
    \/ last.store_raised
    \/ last.op \in StoreMethods /\ HandlerRejects(last.op, last.args)
    \/ last.op = "tools/call" /\ last.tool # "found"
    \/ last.op \in RequiresParams /\ last.args = NoParams

\* C29: every request is answered, with the id of the request: by an error
\* response of code -32601 when its method is not registered, and then no
\* handler ran, the file is as it was and nothing was logged; by an error
\* response of code -32603 when its handler raised; by a success response
\* otherwise.
C29_EndpointAlwaysAnswers ==
    last.op # "none"
    => /\ last.response.kind \in {"error", "result"}
       /\ last.response.id = last.id
       /\ last.op \notin METHOD_HANDLERS
          => /\ last.response.kind = "error"
             /\ last.response.code = 0 - 32601
             /\ ~last.called
             /\ ~last.handler_raised
             /\ file = last.before
             /\ last.rows = <<>>
       /\ last.op \in METHOD_HANDLERS
          => /\ last.response.kind = "error" <=> last.handler_raised
             /\ last.response.kind = "error" => last.response.code = 0 - 32603
             /\ RaisedBelow => last.response.kind = "error"

\* A request for a method nobody registered, on a store that holds an
\* entity: the -32601 response with the id of the request, the file as it
\* was.
C29_Witness ==
    /\ last.op = "memory_forget"
    /\ last.id = 2
    /\ last.response = ErrorResponse(0 - 32601, 2)
    /\ StoredNames(last.before) # {}
    /\ file = last.before
    /\ ~last.called

====
